---------------------------- MODULE Spec2Model ----------------------------
(* State-machine model of the Machinecraft inventory tooling:               *)
(*   - the Bronze/Silver SQLite pipeline (inventory_data_pipeline.py),      *)
(*     the two Silver rebuild scripts (fix_silver_database.py,              *)
(*     populate_silver.py) and the bot's minimal database                   *)
(*     (deploy_slack_bot.py)                      -- specification Spec     *)
(*   - the in-memory consolidators' deduplicate_items                        *)
(*                                                 -- specification SpecDedup *)
(* Text is modelled as a sequence of one-character strings so that          *)
(* lower(), strip(), substring tests and concatenation are computed.        *)
EXTENDS Integers, Sequences, FiniteSets, TLC

VARIABLES
    disk,        \* source directory: file name -> workbook id, or "absent"
    db,          \* the SQLite file: [exists, bronze_table, silver_table]
    bronze,      \* committed rows of bronze_inventory_raw, in id order
    silver,      \* committed rows of silver_inventory_items, in id order
    stage,       \* position of run_full_pipeline: idle / ingest / transform / report
    runResult,   \* 'status' of the last run_full_pipeline result, or "none"
    lastOp,      \* the operation that made the last step
    runs,        \* how many times run_full_pipeline was started
    fileOps,     \* how many times the source directory was changed
    variant,     \* which consolidator class deduplicate_items belongs to
    all_items,   \* the consolidator's self.all_items
    dedupInput,  \* self.all_items as it was when deduplicate_items was called
    dpc,         \* position of the consolidator: "collected" / "deduplicated"
    cons_class,  \* the class whose row loop and run() are followed
    cons_rows,   \* the rows of the sheet being processed, as pandas read them
    cons_index,  \* the row the loop is at (1-based)
    cons_items,  \* that object's self.all_items (Silver rows, for the pipeline)
    cons_trace,  \* per row so far: what happened to it
    cons_errors, \* the row-level errors recorded so far
    cons_pc,     \* position of run(): rows / export / done / crashed
    cons_export, \* the workbook the export wrote, and the exception that ended run()
    fl_class,        \* the class whose loop over the files found is running
    fl_files,        \* the files found, each with the rows of its sheet
    fl_index,        \* the file process_excel_file is called on next
    fl_items,        \* self.all_items of that run
    processed_files, \* self.processed_files
    skipped_files,   \* self.skipped_files
    fl_pc,           \* position of that run: files / done
    col_program,     \* the program whose column inference is applied
    col_headers,     \* df.columns of the sheet
    col_found,       \* the column index it found per field (0: none), <<>> before
    sheet_read,      \* reading one sheet: the class, the raw sheet, the attempts made, df
    bot_event,       \* handle_message of the Slack bot: the event text, the search called, the post
    rerun            \* run() called twice on one directory: the source file, the report written, the items of each run

vars == <<disk, db, bronze, silver, stage, runResult, lastOp, runs, fileOps,
          variant, all_items, dedupInput, dpc,
          cons_class, cons_rows, cons_index, cons_items, cons_trace, cons_errors, cons_pc,
          cons_export, fl_class, fl_files, fl_index, fl_items, processed_files, skipped_files,
          fl_pc, col_program, col_headers, col_found, sheet_read, bot_event, rerun>>

pipelineVars == <<disk, db, bronze, silver, stage, runResult, lastOp, runs, fileOps>>
dedupVars == <<variant, all_items, dedupInput, dpc>>
consVars == <<cons_class, cons_rows, cons_index, cons_items, cons_trace, cons_errors, cons_pc,
              cons_export>>
fileVars == <<fl_class, fl_files, fl_index, fl_items, processed_files, skipped_files, fl_pc>>
columnVars == <<col_program, col_headers, col_found>>
sheetVars == <<sheet_read>>
botVars == <<bot_event>>
rerunVars == <<rerun>>

-----------------------------------------------------------------------------
(* Text helpers.                                                            *)

UpperLetters ==
    <<"A", "B", "C", "D", "E", "F", "G", "H", "I", "J", "K", "L", "M",
      "N", "O", "P", "Q", "R", "S", "T", "U", "V", "W", "X", "Y", "Z">>

LowerLetters ==
    <<"a", "b", "c", "d", "e", "f", "g", "h", "i", "j", "k", "l", "m",
      "n", "o", "p", "q", "r", "s", "t", "u", "v", "w", "x", "y", "z">>

IsUpper(c) == \E k \in 1..26 : UpperLetters[k] = c

\* str.lower() of one character
LowerChar(c) ==
    IF IsUpper(c) THEN LowerLetters[CHOOSE k \in 1..26 : UpperLetters[k] = c] ELSE c

Lower(s) == [i \in 1..Len(s) |-> LowerChar(s[i])]

IsSpace(c) == c = " "

RECURSIVE LStrip(_)
LStrip(s) == IF s /= <<>> /\ IsSpace(Head(s)) THEN LStrip(Tail(s)) ELSE s

RECURSIVE RStrip(_)
RStrip(s) ==
    IF s /= <<>> /\ IsSpace(s[Len(s)]) THEN RStrip(SubSeq(s, 1, Len(s) - 1)) ELSE s

\* str.strip()
Strip(s) == RStrip(LStrip(s))

\* Python's  t in s  on strings
Contains(s, t) ==
    \E i \in 1..(Len(s) - Len(t) + 1) : SubSeq(s, i, i + Len(t) - 1) = t

\* any(k in s for k in keywords)
ContainsAny(s, keywords) == \E j \in 1..Len(keywords) : Contains(s, keywords[j])

\* characters removed by re.sub(r'[...]', '', s)
RemoveChars(s, drop) == SelectSeq(s, LAMBDA c : c \notin drop)

Digits == <<"0", "1", "2", "3", "4", "5", "6", "7", "8", "9">>

DigitValue(c) == CHOOSE d \in 0..9 : Digits[d + 1] = c

IsDigit(c) == \E d \in 0..9 : Digits[d + 1] = c

RECURSIVE NatText(_)
\* str(n) for a natural number
NatText(n) == IF n < 10 THEN <<Digits[n + 1]>> ELSE NatText(n \div 10) \o <<Digits[(n % 10) + 1]>>

\* str(n) for an integer cell
IntText(n) == IF n < 0 THEN <<"-">> \o NatText(0 - n) ELSE NatText(n)

RECURSIVE NatValue(_)
NatValue(s) == IF s = <<>> THEN 0 ELSE 10 * NatValue(SubSeq(s, 1, Len(s) - 1)) + DigitValue(s[Len(s)])

AllDigits(s) == s /= <<>> /\ \A i \in 1..Len(s) : IsDigit(s[i])

\* float(s) on integer literals: [ok, value]; anything else raises ValueError
ParseFloat(s) ==
    IF AllDigits(s) THEN [ok |-> TRUE, value |-> NatValue(s)]
    ELSE IF s /= <<>> /\ Head(s) = "-" /\ AllDigits(Tail(s))
         THEN [ok |-> TRUE, value |-> 0 - NatValue(Tail(s))]
    ELSE IF s /= <<>> /\ Head(s) = "+" /\ AllDigits(Tail(s))
         THEN [ok |-> TRUE, value |-> NatValue(Tail(s))]
    ELSE [ok |-> FALSE, value |-> 0]

-----------------------------------------------------------------------------
(* Spreadsheet cells and the workbooks the source directory can hold.        *)

\* A cell as pandas hands it over: NaN, a number, or text.
NaN == [t |-> "nan"]
Num(n) == [t |-> "num", v |-> n]
Txt(s) == [t |-> "txt", v |-> s]

\* pd.isna(cell)
IsNa(cell) == cell.t = "nan"

\* str(cell)
Str(cell) ==
    CASE cell.t = "nan" -> <<"n", "a", "n">>
      [] cell.t = "num" -> IntText(cell.v)
      [] cell.t = "txt" -> cell.v

Letters ==
    {"a", "b", "c", "d", "e", "f", "g", "h", "i", "j", "k", "l", "m",
     "n", "o", "p", "q", "r", "s", "t", "u", "v", "w", "x", "y", "z",
     "A", "B", "C", "D", "E", "F", "G", "H", "I", "J", "K", "L", "M",
     "N", "O", "P", "Q", "R", "S", "T", "U", "V", "W", "X", "Y", "Z"}

\* the character class [currency , whitespace] of the price regex
CurrencyChars == {"$", ",", " "}

File_festo == <<"F", "E", "S", "T", "O", "_", "a", ".", "x", "l", "s", "x">>
File_eaton == <<"e", "a", "t", "o", "n", "_", "b", ".", "x", "l", "s", "x">>
File_old == <<"o", "l", "d", ".", "x", "l", "s", "x">>

\* the *.xlsx names that can exist under base_path
Paths == {File_festo, File_eaton, File_old}

Col_part_number == <<"p", "a", "r", "t", "_", "n", "u", "m", "b", "e", "r">>
Col_description == <<"d", "e", "s", "c", "r", "i", "p", "t", "i", "o", "n">>
Col_price == <<"p", "r", "i", "c", "e">>
Col_quantity == <<"q", "u", "a", "n", "t", "i", "t", "y">>
Col_min_stock == <<"m", "i", "n", "_", "s", "t", "o", "c", "k">>
Col_ItemCode == <<"I", "t", "e", "m", " ", "C", "o", "d", "e">>
Col_ItemDescription == <<"I", "t", "e", "m", " ", "D", "e", "s", "c", "r", "i", "p", "t", "i", "o", "n">>
Col_Rate == <<"R", "a", "t", "e">>
Col_Qty == <<"Q", "t", "y">>

Text_X1 == <<"X", "1">>
Text_X2 == <<"X", "2">>
Text_x1 == <<"x", "1">>
Text_Widget == <<"W", "i", "d", "g", "e", "t">>
Text_Gadget == <<"G", "a", "d", "g", "e", "t">>
Text_price2500 == <<"$", "2", ",", "5", "0", "0">>

\* Workbook ids stand for file contents (bytes); two files hold the same id
\* exactly when they are byte-identical.
WorkbookIds == {"wb_named", "wb_headers", "wb_corrupt"}

\* What pandas makes of each content: readable is FALSE when pd.ExcelFile
\* raises; a sheet's ok is FALSE when pd.read_excel raises for that sheet.
Workbook(c) ==
    CASE c = "wb_named" ->
           [readable |-> TRUE,
            sheets |-> <<
              [name |-> "Stock", ok |-> TRUE,
               columns |-> <<Col_part_number, Col_description, Col_price,
                             Col_quantity, Col_min_stock>>,
               data |-> << <<Txt(Text_X1), Txt(Text_Widget), Num(100), Num(0), Num(1)>>,
                           <<NaN, NaN, NaN, NaN, NaN>>,
                           <<Txt(Text_X2), Txt(Text_Gadget), Txt(Text_price2500), Num(5), Num(2)>>,
                           <<Txt(Text_x1), Txt(Text_Widget), Num(150), Num(3), Num(1)>> >>] >>]
      [] c = "wb_headers" ->
           [readable |-> TRUE,
            sheets |-> <<
              [name |-> "Broken", ok |-> FALSE, columns |-> <<>>, data |-> <<>>],
              [name |-> "Prices", ok |-> TRUE,
               columns |-> <<Col_ItemCode, Col_ItemDescription, Col_Rate, Col_Qty>>,
               data |-> << <<Txt(Text_X1), Txt(Text_Widget), Num(150), Num(3)>> >>] >>]
      [] c = "wb_corrupt" ->
           [readable |-> FALSE, sheets |-> <<>>]

-----------------------------------------------------------------------------
(* Keyword tables of the pipeline and of the rebuild scripts.               *)

brand_mappings ==
    <<<<<<"m", "i", "t", "s", "u", "b", "i", "s", "h", "i">>, "Mitsubishi">>,
      <<<<"f", "e", "s", "t", "o">>, "FESTO">>,
      <<<<"s", "m", "c">>, "SMC">>,
      <<<<"e", "a", "t", "o", "n">>, "Eaton">>,
      <<<<"o", "m", "r", "o", "n">>, "Omron">>,
      <<<<"s", "i", "c", "k">>, "SICK">>,
      <<<<"p", "h", "o", "e", "n", "i", "x">>, "Phoenix">>,
      <<<<"l", "a", "p", "p">>, "LAPP">>,
      <<<<"s", "i", "e", "m", "e", "n", "s">>, "Siemens">>>>

fix_brand_mappings ==
    <<<<<<"m", "i", "t", "s", "u", "b", "i", "s", "h", "i">>, "Mitsubishi">>,
      <<<<"f", "e", "s", "t", "o">>, "FESTO">>,
      <<<<"s", "m", "c">>, "SMC">>,
      <<<<"e", "a", "t", "o", "n">>, "Eaton">>,
      <<<<"o", "m", "r", "o", "n">>, "Omron">>,
      <<<<"s", "i", "c", "k">>, "SICK">>,
      <<<<"p", "h", "o", "e", "n", "i", "x">>, "Phoenix">>,
      <<<<"l", "a", "p", "p">>, "LAPP">>,
      <<<<"s", "i", "e", "m", "e", "n", "s">>, "Siemens">>,
      <<<<"b", "e", "a", "r", "i", "n", "g">>, "Bearing">>,
      <<<<"c", "y", "l", "i", "n", "d", "e", "r">>, "Cylinder">>,
      <<<<"g", "e", "a", "r">>, "Gearbox">>,
      <<<<"h", "e", "a", "t", "e", "r">>, "Heater">>,
      <<<<"c", "e", "r", "a", "m", "i", "x">>, "CERAMIX">>,
      <<<<"c", "r", "y", "d", "o", "m">>, "CRYDOM">>,
      <<<<"e", "b", "m">>, "EBM">>,
      <<<<"e", "l", "s", "t", "i", "e", "n">>, "Elstien">>,
      <<<<"g", "r", "a", "n", "d">>, "Grand Polycoat">>,
      <<<<"h", "i", "c", "o", "o", "l">>, "Hicool">>,
      <<<<"i", "n", "d", "o">>, "Indo Electricals">>,
      <<<<"n", "v", "e", "n", "t">>, "Nvent Hoffman">>,
      <<<<"p", "r", "e", "c", "i", "s", "i", "o", "n">>, "Precision Valve">>,
      <<<<"p", "n", "f">>, "PNF">>,
      <<<<"w", "o", "h", "n", "e", "r">>, "Wohner">>,
      <<<<"a", "u", "t", "o", "n", "i", "c", "s">>, "Autonics">>,
      <<<<"a", "l", "b", "r", "o">>, "Albro">>,
      <<<<"a", "p", "r", "a", "t", "e", "k">>, "Apratek">>,
      <<<<"m", "u", "r", "r">>, "Murr">>,
      <<<<"b", "o", "n", "f", "i", "g", "l", "i", "o", "l", "i">>, "Bonfiglioli">>,
      <<<<"b", "e", "c", "k", "e", "r">>, "Becker">>,
      <<<<"s", "u", "n", "c", "h", "u">>, "Sunchu">>,
      <<<<"y", "y", "c">>, "YYC">>,
      <<<<"h", "e", "t", "r", "o", "n", "i", "k">>, "Hetronik">>,
      <<<<"f", "l", "e", "x", "i", "c", "a", "b">>, "Flexicab">>,
      <<<<"h", "r", "c">>, "HRC">>,
      <<<<"i", "a", "c">>, "IAC">>,
      <<<<"l", "a", "t", "h", "e">>, "Lathe">>,
      <<<<"t", "r", "i", "n", "i", "t", "y">>, "Trinity">>,
      <<<<"t", "e", "k", "n", "i", "c">>, "Teknic">>,
      <<<<"u", "n", "i", "s", "o", "n">>, "Unison">>,
      <<<<"p", "n", "e", "u", "m", "a", "x">>, "Pneumax">>>>

populate_brand_chain ==
    <<<<<<"m", "i", "t", "s", "u", "b", "i", "s", "h", "i">>, "Mitsubishi">>,
      <<<<"f", "e", "s", "t", "o">>, "FESTO">>,
      <<<<"s", "m", "c">>, "SMC">>,
      <<<<"e", "a", "t", "o", "n">>, "Eaton">>,
      <<<<"o", "m", "r", "o", "n">>, "Omron">>,
      <<<<"s", "i", "c", "k">>, "SICK">>,
      <<<<"p", "h", "o", "e", "n", "i", "x">>, "Phoenix">>,
      <<<<"l", "a", "p", "p">>, "LAPP">>,
      <<<<"s", "i", "e", "m", "e", "n", "s">>, "Siemens">>,
      <<<<"b", "e", "a", "r", "i", "n", "g">>, "Bearing">>,
      <<<<"c", "y", "l", "i", "n", "d", "e", "r">>, "Cylinder">>,
      <<<<"c", "e", "r", "a", "m", "i", "x">>, "CERAMIX">>,
      <<<<"c", "r", "y", "d", "o", "m">>, "CRYDOM">>,
      <<<<"e", "b", "m">>, "EBM">>,
      <<<<"e", "l", "s", "t", "i", "e", "n">>, "Elstien">>,
      <<<<"g", "r", "a", "n", "d">>, "Grand Polycoat">>,
      <<<<"h", "i", "c", "o", "o", "l">>, "Hicool">>,
      <<<<"i", "n", "d", "o">>, "Indo Electricals">>,
      <<<<"n", "v", "e", "n", "t">>, "Nvent Hoffman">>,
      <<<<"p", "r", "e", "c", "i", "s", "i", "o", "n">>, "Precision Valve">>,
      <<<<"p", "n", "f">>, "PNF">>,
      <<<<"w", "o", "h", "n", "e", "r">>, "Wohner">>,
      <<<<"a", "u", "t", "o", "n", "i", "c", "s">>, "Autonics">>,
      <<<<"a", "l", "b", "r", "o">>, "Albro">>,
      <<<<"a", "p", "r", "a", "t", "e", "k">>, "Apratek">>,
      <<<<"m", "u", "r", "r">>, "Murr">>,
      <<<<"b", "o", "n", "f", "i", "g", "l", "i", "o", "l", "i">>, "Bonfiglioli">>,
      <<<<"b", "e", "c", "k", "e", "r">>, "Becker">>,
      <<<<"s", "u", "n", "c", "h", "u">>, "Sunchu">>,
      <<<<"y", "y", "c">>, "YYC">>,
      <<<<"h", "e", "t", "r", "o", "n", "i", "k">>, "Hetronik">>,
      <<<<"f", "l", "e", "x", "i", "c", "a", "b">>, "Flexicab">>,
      <<<<"h", "r", "c">>, "HRC">>,
      <<<<"i", "a", "c">>, "IAC">>,
      <<<<"l", "a", "t", "h", "e">>, "Lathe">>,
      <<<<"t", "r", "i", "n", "i", "t", "y">>, "Trinity">>,
      <<<<"t", "e", "k", "n", "i", "c">>, "Teknic">>,
      <<<<"u", "n", "i", "s", "o", "n">>, "Unison">>,
      <<<<"p", "n", "e", "u", "m", "a", "x">>, "Pneumax">>>>

ingest_skip_patterns == <<<<"t", "e", "m", "p", "l", "a", "t", "e">>, <<"b", "a", "c", "k", "u", "p">>, <<"c", "o", "p", "y">>, <<"o", "l", "d">>>>

fix_part_keywords == <<<<"p", "a", "r", "t">>, <<"i", "t", "e", "m", " ", "n", "o">>, <<"m", "o", "d", "e", "l">>, <<"s", "k", "u">>, <<"c", "o", "d", "e">>>>

fix_desc_keywords == <<<<"d", "e", "s", "c", "r", "i", "p", "t", "i", "o", "n">>, <<"d", "e", "s", "c">>, <<"n", "a", "m", "e">>, <<"i", "t", "e", "m", " ", "d", "e", "s", "c", "r", "i", "p", "t", "i", "o", "n">>>>

fix_price_keywords == <<<<"p", "r", "i", "c", "e">>, <<"c", "o", "s", "t">>, <<"r", "a", "t", "e">>, <<"v", "a", "l", "u", "e">>, <<"a", "m", "o", "u", "n", "t">>>>

fix_qty_keywords == <<<<"q", "t", "y">>, <<"q", "u", "a", "n", "t", "i", "t", "y">>, <<"s", "t", "o", "c", "k">>, <<"a", "v", "a", "i", "l", "a", "b", "l", "e">>>>

fix_min_keywords == <<<<"m", "i", "n">>, <<"m", "a", "i", "n", "t", "a", "i", "n">>, <<"r", "e", "o", "r", "d", "e", "r">>>>

populate_price_keywords == <<<<"p", "r", "i", "c", "e">>, <<"c", "o", "s", "t">>, <<"r", "a", "t", "e">>, <<"v", "a", "l", "u", "e">>, <<"a", "m", "o", "u", "n", "t">>, <<"r", "s">>, <<"i", "n", "r">>>>

populate_min_keywords == <<<<"m", "i", "n">>, <<"m", "a", "i", "n", "t", "a", "i", "n">>, <<"r", "e", "o", "r", "d", "e", "r">>, <<"t", "o", " ", "m", "a", "i", "n", "t", "a", "i", "n">>>>


fix_category_chain ==
    <<<<"Pneumatic Components",
        <<<<"p", "n", "e", "u", "m", "a", "t", "i", "c">>, <<"c", "y", "l", "i", "n", "d", "e", "r">>, <<"v", "a", "l", "v", "e">>, <<"f", "e", "s", "t", "o">>, <<"s", "m", "c">>, <<"c", "o", "n", "n", "e", "c", "t", "o", "r">>, <<"f", "i", "t", "t", "i", "n", "g">>>>>>,
      <<"Electrical Components",
        <<<<"c", "o", "n", "t", "a", "c", "t", "o", "r">>, <<"m", "c", "b">>, <<"m", "c", "c", "b">>, <<"r", "e", "l", "a", "y">>, <<"s", "w", "i", "t", "c", "h">>, <<"e", "l", "e", "c", "t", "r", "i", "c", "a", "l">>, <<"e", "a", "t", "o", "n">>, <<"s", "i", "e", "m", "e", "n", "s">>>>>>,
      <<"Motors & Drives",
        <<<<"m", "o", "t", "o", "r">>, <<"s", "e", "r", "v", "o">>, <<"d", "r", "i", "v", "e">>, <<"m", "i", "t", "s", "u", "b", "i", "s", "h", "i">>, <<"g", "e", "a", "r">>, <<"g", "e", "a", "r", "b", "o", "x">>>>>>,
      <<"Cables & Connectors",
        <<<<"c", "a", "b", "l", "e">>, <<"w", "i", "r", "e">>, <<"c", "o", "n", "n", "e", "c", "t", "o", "r">>, <<"l", "a", "p", "p">>, <<"p", "h", "o", "e", "n", "i", "x">>>>>>,
      <<"Sensors & Instrumentation",
        <<<<"s", "e", "n", "s", "o", "r">>, <<"s", "i", "c", "k">>, <<"o", "m", "r", "o", "n">>, <<"r", "e", "e", "d", " ", "s", "w", "i", "t", "c", "h">>, <<"p", "r", "o", "x", "i", "m", "i", "t", "y">>>>>>,
      <<"Mechanical Components",
        <<<<"b", "e", "a", "r", "i", "n", "g">>, <<"s", "p", "r", "o", "c", "k", "e", "t">>, <<"c", "h", "a", "i", "n">>, <<"l", "i", "n", "e", "a", "r">>, <<"r", "a", "i", "l">>>>>>,
      <<"Heating Elements",
        <<<<"h", "e", "a", "t", "e", "r">>, <<"h", "e", "a", "t", "i", "n", "g">>, <<"c", "e", "r", "a", "m", "i", "c">>, <<"c", "e", "r", "a", "m", "i", "x">>>>>>,
      <<"PLC & Control Systems",
        <<<<"p", "l", "c">>, <<"c", "o", "n", "t", "r", "o", "l">>, <<"p", "r", "o", "g", "r", "a", "m", "m", "a", "b", "l", "e">>, <<"f", "x", "2", "n">>, <<"f", "x", "3", "u">>>>>>>>

populate_category_chain ==
    <<<<"Pneumatic Components",
        <<<<"p", "n", "e", "u", "m", "a", "t", "i", "c">>, <<"c", "y", "l", "i", "n", "d", "e", "r">>, <<"v", "a", "l", "v", "e">>, <<"f", "e", "s", "t", "o">>, <<"s", "m", "c">>, <<"c", "o", "n", "n", "e", "c", "t", "o", "r">>, <<"f", "i", "t", "t", "i", "n", "g">>>>>>,
      <<"Electrical Components",
        <<<<"c", "o", "n", "t", "a", "c", "t", "o", "r">>, <<"m", "c", "b">>, <<"m", "c", "c", "b">>, <<"r", "e", "l", "a", "y">>, <<"e", "l", "e", "c", "t", "r", "i", "c", "a", "l">>, <<"s", "w", "i", "t", "c", "h">>>>>>,
      <<"Motors & Drives",
        <<<<"m", "o", "t", "o", "r">>, <<"s", "e", "r", "v", "o">>, <<"d", "r", "i", "v", "e">>, <<"m", "i", "t", "s", "u", "b", "i", "s", "h", "i">>, <<"g", "e", "a", "r">>, <<"g", "e", "a", "r", "b", "o", "x">>>>>>,
      <<"Cables & Connectors",
        <<<<"c", "a", "b", "l", "e">>, <<"w", "i", "r", "e">>, <<"c", "o", "n", "n", "e", "c", "t", "o", "r">>, <<"l", "a", "p", "p">>, <<"p", "h", "o", "e", "n", "i", "x">>>>>>,
      <<"Sensors & Instrumentation",
        <<<<"s", "e", "n", "s", "o", "r">>, <<"s", "i", "c", "k">>, <<"o", "m", "r", "o", "n">>, <<"r", "e", "e", "d", " ", "s", "w", "i", "t", "c", "h">>, <<"p", "r", "o", "x", "i", "m", "i", "t", "y">>>>>>,
      <<"Mechanical Components",
        <<<<"b", "e", "a", "r", "i", "n", "g">>, <<"s", "p", "r", "o", "c", "k", "e", "t">>, <<"c", "h", "a", "i", "n">>, <<"l", "i", "n", "e", "a", "r">>, <<"r", "a", "i", "l">>>>>>,
      <<"Heating Elements",
        <<<<"h", "e", "a", "t", "e", "r">>, <<"h", "e", "a", "t", "i", "n", "g">>, <<"c", "e", "r", "a", "m", "i", "c">>, <<"c", "e", "r", "a", "m", "i", "x">>>>>>,
      <<"PLC & Control Systems",
        <<<<"p", "l", "c">>, <<"c", "o", "n", "t", "r", "o", "l">>, <<"p", "r", "o", "g", "r", "a", "m", "m", "a", "b", "l", "e">>, <<"f", "x", "2", "n">>, <<"f", "x", "3", "u">>>>>>>>

-----------------------------------------------------------------------------
(* Helpers of the pipeline (inventory_data_pipeline.py).                    *)

RECURSIVE LastDot(_, _)
\* the index of the last "." of s at or before i, 0 when there is none
LastDot(s, i) == IF i = 0 THEN 0 ELSE IF s[i] = "." THEN i ELSE LastDot(s, i - 1)

\* Path(name).stem
Stem(name) ==
    LET d == LastDot(name, Len(name))
    IN  IF d > 1 THEN SubSeq(name, 1, d - 1) ELSE name

RECURSIVE FirstBrand(_, _, _)
\* for key, brand in table: if key in filename: return brand
FirstBrand(filename, table, i) ==
    IF i > Len(table) THEN "Unknown"
    ELSE IF Contains(filename, table[i][1]) THEN table[i][2]
    ELSE FirstBrand(filename, table, i + 1)

_extract_brand_from_filename(filename) ==
    FirstBrand(Lower(Stem(filename)), brand_mappings, 1)

_clean_text(text) == IF IsNa(text) THEN <<>> ELSE Strip(Str(text))

_clean_price(price) ==
    IF IsNa(price) THEN 0
    ELSE LET s1 == RemoveChars(Strip(Str(price)), CurrencyChars)
             s2 == RemoveChars(s1, Letters \cup {" "})
             f == ParseFloat(s2)
         IN  IF f.ok THEN f.value ELSE 0

_clean_quantity(qty) ==
    IF IsNa(qty) THEN 0
    ELSE LET f == ParseFloat(Strip(Str(qty)))
         IN  IF f.ok THEN f.value ELSE 0

_validate_item_ai(part_number, description, brand, price) ==
    [part_number |-> part_number, description |-> description, brand |-> brand,
     category |-> "Uncategorized", price |-> price, confidence |-> "medium"]

\* the index of the column labelled name, 0 when the sheet has none
ColumnIndex(columns, name) ==
    IF \E i \in 1..Len(columns) : columns[i] = name
    THEN CHOOSE i \in 1..Len(columns) :
             columns[i] = name /\ \A j \in 1..(i - 1) : columns[j] /= name
    ELSE 0

\* row_data.get(name, default)
RowGet(columns, row, name, default) ==
    LET i == ColumnIndex(columns, name) IN IF i = 0 THEN default ELSE row[i]

\* hashlib.md5(f.read()).hexdigest(): equal exactly for byte-identical files
Md5Bytes(c) == <<"md5", "bytes", c>>

\* hashlib.md5(str(file_path).encode()).hexdigest()
Md5Str(p) == <<"md5", "str", p>>

\* the skip test at the top of the ingestion loop
IngestSkips(name) == ContainsAny(Lower(name), ingest_skip_patterns)

\* raw_data as ingestion builds it: the sheets pd.read_excel could read
RawData(c) == SelectSeq(Workbook(c).sheets, LAMBDA sh : sh.ok)

RECURSIVE Flatten(_)
Flatten(ss) == IF ss = <<>> THEN <<>> ELSE Head(ss) \o Flatten(Tail(ss))

-----------------------------------------------------------------------------
(* The Silver table.                                                        *)

\* mutant: the column defined as the unit price alone
TotalValueUnitPrice(unit_price_inr, quantity) == unit_price_inr

\* total_value_inr REAL GENERATED ALWAYS AS (unit_price_inr * quantity)
TotalValueInr(unit_price_inr, quantity) == unit_price_inr * quantity

\* stock_status TEXT GENERATED ALWAYS AS (CASE ... END)
StockStatus(quantity, min_stock) ==
    IF quantity <= min_stock THEN "Low Stock"
    ELSE IF quantity = 0 THEN "Out of Stock"
    ELSE "In Stock"

\* one row of silver_inventory_items as create_silver_schema stores it
SilverRow(part_number, description, brand, category, price, quantity, min_stock, source_file, source_sheet, ai_confidence) ==
    [part_number |-> part_number, description |-> description, brand |-> brand,
     category |-> category, unit_price_inr |-> price, quantity |-> quantity,
     min_stock |-> min_stock,
     total_value_inr |-> TotalValueInr(price, quantity),
     stock_status |-> StockStatus(quantity, min_stock),
     source_file |-> source_file, source_sheet |-> source_sheet,
     ai_confidence |-> ai_confidence]

\* The INSERT of the pipeline and of the rebuild scripts names columns
\* (min_stock, source_file, ...) that only the pipeline's table has: on the
\* minimal table it raises, and the row-level handler drops the row.
InsertAccepted(silver_table) == silver_table = "pipeline"

\* the sample row create_minimal_database inserts (all columns given)
SampleItem ==
    [part_number |-> <<"S", "A", "M", "P", "L", "E", "-", "0", "0", "1">>,
     description |-> <<"S", "a", "m", "p", "l", "e", " ", "I", "n", "v", "e", "n", "t", "o", "r", "y", " ",
         "I", "t", "e", "m", " ", "f", "o", "r", " ", "T", "e", "s", "t", "i", "n", "g">>,
     brand |-> "Machinecraft", unit_price_inr |-> 1000, quantity |-> 10,
     total_value_inr |-> 10000, stock_status |-> "In Stock",
     category |-> "Sample Components"]

-----------------------------------------------------------------------------
(* ingest_excel_files.                                                      *)

HashKnown(rows, h) == \E i \in 1..Len(rows) : rows[i].data_hash = h

\* One pass of the ingestion loop body over the file p, on the rows written
\* so far in this transaction.  crashed: the INSERT of the except-branch hit
\* the UNIQUE constraint on data_hash, so the exception leaves the method.
IngestFile(st, p) ==
    LET c == disk[p] IN
    IF st.crashed \/ IngestSkips(p) THEN st
    ELSE IF HashKnown(st.rows, Md5Bytes(c)) THEN st
    ELSE IF Workbook(c).readable
         THEN [st EXCEPT !.rows = Append(@,
                  [source_file |-> p, raw_data |-> RawData(c),
                   data_hash |-> Md5Bytes(c), processing_status |-> "ingested"]),
                         !.ingested = @ + 1]
    ELSE IF HashKnown(st.rows, Md5Str(p))
         THEN [st EXCEPT !.crashed = TRUE]
    ELSE [st EXCEPT !.rows = Append(@,
                  [source_file |-> p, raw_data |-> <<>>,
                   data_hash |-> Md5Str(p), processing_status |-> "error"])]

RECURSIVE IngestLoop(_, _)
\* for file_path in excel_files
IngestLoop(st, excel_files) ==
    IF excel_files = <<>> THEN st
    ELSE IngestLoop(IngestFile(st, Head(excel_files)), Tail(excel_files))

\* the files glob finds; their order is the file system's
PresentFiles == {p \in Paths : disk[p] /= "absent"}

GlobOrders ==
    {o \in [1..Cardinality(PresentFiles) -> PresentFiles] :
        \A i, j \in DOMAIN o : i /= j => o[i] /= o[j]}

-----------------------------------------------------------------------------
(* transform_bronze_to_silver.                                              *)

\* the body of the row loop: the Silver rows one sheet row yields
TransformRow(columns, row, brand, source_file, sheet_name, silver_table) ==
    LET part_number == _clean_text(RowGet(columns, row, Col_part_number, Txt(<<>>)))
        description == _clean_text(RowGet(columns, row, Col_description, Txt(<<>>)))
        price == _clean_price(RowGet(columns, row, Col_price, Num(0)))
        quantity == _clean_quantity(RowGet(columns, row, Col_quantity, Num(0)))
        min_stock == _clean_quantity(RowGet(columns, row, Col_min_stock, Num(0)))
        ai == _validate_item_ai(part_number, description, brand, price)
    IN  IF part_number = <<>> /\ description = <<>> THEN <<>>
        ELSE IF ~InsertAccepted(silver_table) THEN <<>>
        ELSE <<SilverRow(ai.part_number, ai.description, ai.brand, ai.category,
                         ai.price, quantity, min_stock, source_file, sheet_name,
                         ai.confidence)>>

TransformSheet(sheet, source_file, silver_table) ==
    Flatten([r \in 1..Len(sheet.data) |->
                TransformRow(sheet.columns, sheet.data[r],
                             _extract_brand_from_filename(source_file),
                             source_file, sheet.name, silver_table)])

\* the Silver rows of the first n sheets of a Bronze record
TransformSheets(rec, n, silver_table) ==
    Flatten([k \in 1..n |-> TransformSheet(rec.raw_data[k], rec.source_file, silver_table)])

\* mutant: the SELECT without its WHERE clause
TransformSelectedAll(rows) == 1..Len(rows)

\* WHERE processing_status = 'ingested'
TransformSelected(rows) == {i \in 1..Len(rows) : rows[i].processing_status = "ingested"}

\* failAt[i] = 0: record i is transformed; failAt[i] = k > 0: the file-level
\* handler is entered while sheet k is being set up (sheets before k are
\* already inserted) and the record becomes 'error'; k one past the last
\* sheet: it is entered from the UPDATE that follows the sheets.
TransformSilver(rows, selected, failAt, silver_table) ==
    Flatten([i \in 1..Len(rows) |->
        IF i \in selected
        THEN TransformSheets(rows[i],
                 IF failAt[i] = 0 THEN Len(rows[i].raw_data) ELSE failAt[i] - 1,
                 silver_table)
        ELSE <<>>])

\* mutant: the file-level handler puts the record back to 'pending'
TransformBronzeRetry(rows, selected, failAt) ==
    [i \in 1..Len(rows) |->
        IF i \in selected
        THEN [rows[i] EXCEPT !.processing_status =
                 IF failAt[i] = 0 THEN "transformed" ELSE "pending"]
        ELSE rows[i]]

\* mutant: the file-level handler leaves the status of the record alone
TransformBronzeUnmarked(rows, selected, failAt) ==
    [i \in 1..Len(rows) |->
        IF i \in selected /\ failAt[i] = 0
        THEN [rows[i] EXCEPT !.processing_status = "transformed"]
        ELSE rows[i]]

\* the UPDATEs of the record loop: 'transformed', or 'error' in the handler
TransformBronze(rows, selected, failAt) ==
    [i \in 1..Len(rows) |->
        IF i \in selected
        THEN [rows[i] EXCEPT !.processing_status =
                 IF failAt[i] = 0 THEN "transformed" ELSE "error"]
        ELSE rows[i]]

-----------------------------------------------------------------------------
(* fix_silver_database.py                                                   *)

fix_extract_brand_from_filename(filename) ==
    FirstBrand(Lower(Stem(filename)), fix_brand_mappings, 1)

fix_clean_text(text) == IF IsNa(text) THEN <<>> ELSE Strip(Str(text))

fix_clean_price(price) ==
    IF IsNa(price) THEN 0
    ELSE LET s1 == RemoveChars(Strip(Str(price)), CurrencyChars)
             s2 == RemoveChars(s1, Letters \cup {" "})
             f == ParseFloat(s2)
         IN  IF f.ok THEN f.value ELSE 0

fix_clean_quantity(qty) ==
    IF IsNa(qty) THEN 0
    ELSE LET f == ParseFloat(Strip(Str(qty)))
         IN  IF f.ok THEN f.value ELSE 0

RECURSIVE FirstCategory(_, _, _, _)
\* the if/elif chain over the category keyword lists
FirstCategory(desc_lower, chain, i, otherwise) ==
    IF i > Len(chain) THEN otherwise
    ELSE IF ContainsAny(desc_lower, chain[i][2]) THEN chain[i][1]
    ELSE FirstCategory(desc_lower, chain, i + 1, otherwise)

fix_categorize_item(part_number, description, brand) ==
    FirstCategory(Lower(description), fix_category_chain, 1, "Other Components")

RECURSIVE FixColumnMap(_, _, _)
\* "Find matching columns": every column overwrites the field of the first
\* keyword list it matches, so the last matching column keeps the field.
FixColumnMap(columns, i, m) ==
    IF i > Len(columns) THEN m
    ELSE LET col == Strip(Lower(columns[i])) IN
         FixColumnMap(columns, i + 1,
            IF ContainsAny(col, fix_part_keywords) THEN [m EXCEPT !.part_number = i]
            ELSE IF ContainsAny(col, fix_desc_keywords) THEN [m EXCEPT !.description = i]
            ELSE IF ContainsAny(col, fix_price_keywords) THEN [m EXCEPT !.price = i]
            ELSE IF ContainsAny(col, fix_qty_keywords) THEN [m EXCEPT !.quantity = i]
            ELSE IF ContainsAny(col, fix_min_keywords) THEN [m EXCEPT !.min_stock = i]
            ELSE m)

NoColumns == [part_number |-> 0, description |-> 0, price |-> 0, quantity |-> 0, min_stock |-> 0]

FixRow(m, row, brand, source_file, sheet_name, silver_table) ==
    LET part_number == IF m.part_number /= 0 THEN fix_clean_text(row[m.part_number]) ELSE <<>>
        description == IF m.description /= 0 THEN fix_clean_text(row[m.description]) ELSE <<>>
        price == IF m.price /= 0 THEN fix_clean_price(row[m.price]) ELSE 0
        quantity == IF m.quantity /= 0 THEN fix_clean_quantity(row[m.quantity]) ELSE 0
        min_stock == IF m.min_stock /= 0 THEN fix_clean_quantity(row[m.min_stock]) ELSE 0
    IN  IF part_number = <<>> /\ description = <<>> THEN <<>>
        ELSE IF ~InsertAccepted(silver_table) THEN <<>>
        ELSE <<SilverRow(part_number, description, brand,
                         fix_categorize_item(part_number, description, brand),
                         price, quantity, min_stock, source_file, sheet_name, "high")>>

FixSheet(sheet, source_file, silver_table) ==
    LET m == FixColumnMap(sheet.columns, 1, NoColumns) IN
    Flatten([r \in 1..Len(sheet.data) |->
                FixRow(m, sheet.data[r], fix_extract_brand_from_filename(source_file),
                       source_file, sheet.name, silver_table)])

FixRecord(rec, silver_table) ==
    Flatten([k \in 1..Len(rec.raw_data) |-> FixSheet(rec.raw_data[k], rec.source_file, silver_table)])

\* SELECT ... FROM bronze_inventory_raw WHERE processing_status = "ingested"
FixSelected(rows) == {i \in 1..Len(rows) : rows[i].processing_status = "ingested"}

\* the Silver table fix_silver_database leaves behind
FixSilver(rows, silver_table) ==
    Flatten([i \in 1..Len(rows) |->
        IF i \in FixSelected(rows) THEN FixRecord(rows[i], silver_table) ELSE <<>>])

-----------------------------------------------------------------------------
(* populate_silver.py                                                       *)

populate_brand(source_file) ==
    FirstBrand(Lower(Stem(source_file)), populate_brand_chain, 1)

\* val and val != 'nan' and val != 'None'
PopulateUsable(val) ==
    /\ val /= <<>>
    /\ val /= <<"n", "a", "n">>
    /\ val /= <<"N", "o", "n", "e">>

RECURSIVE PopulateText(_, _, _, _)
\* the part-number and the description search: the first keyword column
\* whose cell is usable
PopulateText(columns, row, keywords, i) ==
    IF i > Len(columns) THEN <<>>
    ELSE IF ContainsAny(Lower(columns[i]), keywords) /\ PopulateUsable(Strip(Str(row[i])))
         THEN Strip(Str(row[i]))
    ELSE PopulateText(columns, row, keywords, i + 1)

RECURSIVE PopulatePrice(_, _, _)
\* the price search: a usable cell ends it, unless float() raises on it
PopulatePrice(columns, row, i) ==
    IF i > Len(columns) THEN 0
    ELSE IF ContainsAny(Lower(columns[i]), populate_price_keywords)
            /\ PopulateUsable(Strip(Str(row[i])))
         THEN LET val == RemoveChars(RemoveChars(Strip(Str(row[i])), CurrencyChars),
                                     Letters \cup {" "})
              IN  IF val = <<>> THEN 0
                  ELSE IF ParseFloat(val).ok THEN ParseFloat(val).value
                  ELSE PopulatePrice(columns, row, i + 1)
    ELSE PopulatePrice(columns, row, i + 1)

RECURSIVE PopulateInt(_, _, _, _)
\* the quantity and the min-stock search
PopulateInt(columns, row, keywords, i) ==
    IF i > Len(columns) THEN 0
    ELSE IF ContainsAny(Lower(columns[i]), keywords) /\ PopulateUsable(Strip(Str(row[i])))
         THEN IF ParseFloat(Strip(Str(row[i]))).ok
              THEN ParseFloat(Strip(Str(row[i]))).value
              ELSE PopulateInt(columns, row, keywords, i + 1)
    ELSE PopulateInt(columns, row, keywords, i + 1)

PopulateRow(columns, row, brand, source_file, sheet_name, silver_table) ==
    LET part_number == PopulateText(columns, row, fix_part_keywords, 1)
        description == PopulateText(columns, row, fix_desc_keywords, 1)
        price == PopulatePrice(columns, row, 1)
        quantity == PopulateInt(columns, row, fix_qty_keywords, 1)
        min_stock == PopulateInt(columns, row, populate_min_keywords, 1)
        category == FirstCategory(Lower(description), populate_category_chain, 1,
                                  "Other Components")
    IN  IF part_number = <<>> /\ description = <<>> THEN <<>>
        ELSE IF ~InsertAccepted(silver_table) THEN <<>>
        ELSE <<SilverRow(part_number, description, brand, category, price,
                         quantity, min_stock, source_file, sheet_name, "high")>>

PopulateSheet(sheet, source_file, silver_table) ==
    Flatten([r \in 1..Len(sheet.data) |->
                PopulateRow(sheet.columns, sheet.data[r], populate_brand(source_file),
                            source_file, sheet.name, silver_table)])

PopulateRecord(rec, silver_table) ==
    Flatten([k \in 1..Len(rec.raw_data) |->
                PopulateSheet(rec.raw_data[k], rec.source_file, silver_table)])

\* SELECT source_file, raw_data FROM bronze_inventory_raw
PopulateSilver(rows, silver_table) ==
    Flatten([i \in 1..Len(rows) |-> PopulateRecord(rows[i], silver_table)])

-----------------------------------------------------------------------------
(* The pipeline as a state machine.                                         *)

\* how many times run_full_pipeline is started in one behaviour
MaxRuns == 2

\* how many times the source directory changes in one behaviour
MaxFileOps == 2

Op(name) == lastOp' = name

PipelineInit ==
    /\ disk = [p \in Paths |-> "absent"]
    /\ db = [exists |-> FALSE, bronze_table |-> FALSE, silver_table |-> "absent"]
    /\ bronze = <<>>
    /\ silver = <<>>
    /\ stage = "idle"
    /\ runResult = "none"
    /\ lastOp = "init"
    /\ runs = 0
    /\ fileOps = 0

DedupIdle ==
    /\ variant = "none"
    /\ all_items = <<>>
    /\ dedupInput = <<>>
    /\ dpc = "unused"

\* the export before it is written; error names the exception that ended run()
NoExport == [error |-> "none", main |-> <<>>, by_category |-> {}, by_brand |-> {}, by_price |-> {}]

ColumnsIdle ==
    /\ col_program = "none"
    /\ col_headers = <<>>
    /\ col_found = <<>>

SheetsIdle == sheet_read = [pc |-> "unused"]

BotIdle == bot_event = [pc |-> "unused"]

RerunIdle == rerun = [pc |-> "unused"]

FilesIdle ==
    /\ fl_class = "none"
    /\ fl_files = <<>>
    /\ fl_index = 0
    /\ fl_items = <<>>
    /\ processed_files = <<>>
    /\ skipped_files = <<>>
    /\ fl_pc = "unused"

ConsIdle ==
    /\ cons_class = "none"
    /\ cons_rows = <<>>
    /\ cons_index = 0
    /\ cons_items = <<>>
    /\ cons_trace = <<>>
    /\ cons_errors = <<>>
    /\ cons_pc = "unused"
    /\ cons_export = NoExport

Init == PipelineInit /\ DedupIdle /\ ConsIdle /\ FilesIdle /\ ColumnsIdle /\ SheetsIdle /\ BotIdle /\ RerunIdle

\* a workbook is saved under base_path (new file, new version, or a copy)
PutFile(p, c) ==
    /\ stage = "idle"
    /\ fileOps < MaxFileOps
    /\ disk[p] /= c
    /\ disk' = [disk EXCEPT ![p] = c]
    /\ fileOps' = fileOps + 1
    /\ Op("files")
    /\ UNCHANGED <<db, bronze, silver, stage, runResult, runs>>
    /\ UNCHANGED <<dedupVars, consVars, fileVars, columnVars, sheetVars, botVars, rerunVars>>

\* run_full_pipeline up to the end of the schema creation
PipelineStart ==
    /\ stage = "idle"
    /\ runs < MaxRuns
    /\ runs' = runs + 1
    /\ IF db.silver_table = "minimal"
       THEN \* create_silver_schema: the table exists without source_file,
            \* CREATE INDEX ... (source_file) raises, the run returns 'error'
            /\ db' = [db EXCEPT !.bronze_table = TRUE]
            /\ runResult' = "error"
            /\ stage' = "idle"
            /\ Op("schema_failed")
       ELSE /\ db' = [exists |-> TRUE, bronze_table |-> TRUE, silver_table |-> "pipeline"]
            /\ runResult' = "running"
            /\ stage' = "ingest"
            /\ Op("start")
    /\ UNCHANGED <<disk, bronze, silver, fileOps>>
    /\ UNCHANGED <<dedupVars, consVars, fileVars, columnVars, sheetVars, botVars, rerunVars>>

\* ingest_excel_files, as run_full_pipeline calls it: when the method raises,
\* the run returns 'error' and close() discards the uncommitted INSERTs
IngestExcelFiles ==
    /\ stage = "ingest"
    /\ \E excel_files \in GlobOrders :
         LET st == IngestLoop([rows |-> bronze, crashed |-> FALSE, ingested |-> 0],
                              excel_files)
         IN  IF st.crashed
             THEN /\ bronze' = bronze
                  /\ runResult' = "error"
                  /\ stage' = "idle"
             ELSE /\ bronze' = st.rows
                  /\ runResult' = runResult
                  /\ stage' = "transform"
    /\ Op("ingest")
    /\ UNCHANGED <<disk, db, silver, runs, fileOps>>
    /\ UNCHANGED <<dedupVars, consVars, fileVars, columnVars, sheetVars, botVars, rerunVars>>

\* the effect of transform_bronze_to_silver on the two tables
TransformEffect ==
    LET selected == TransformSelected(bronze)
        sheets == {0} \cup {Len(bronze[i].raw_data) : i \in selected}
    IN
    \E failAt \in [selected -> 0..(1 + CHOOSE n \in sheets : \A m \in sheets : m <= n)] :
        /\ \A i \in selected : failAt[i] <= Len(bronze[i].raw_data) + 1
        /\ silver' = silver \o TransformSilver(bronze, selected, failAt, db.silver_table)
        /\ bronze' = TransformBronze(bronze, selected, failAt)

\* transform_bronze_to_silver as step 2 of run_full_pipeline
TransformBronzeToSilver ==
    /\ stage = "transform"
    /\ TransformEffect
    /\ stage' = "report"
    /\ Op("transform")
    /\ UNCHANGED <<disk, db, runResult, runs, fileOps>>
    /\ UNCHANGED <<dedupVars, consVars, fileVars, columnVars, sheetVars, botVars, rerunVars>>

\* transform_bronze_to_silver called a second time on its own, on the Bronze
\* table a completed run has left (nothing writes Bronze outside a run)
TransformAgain ==
    /\ stage = "idle"
    /\ runResult = "success"
    /\ lastOp /= "transform_again"
    /\ TransformEffect
    /\ Op("transform_again")
    /\ UNCHANGED <<disk, db, stage, runResult, runs, fileOps>>
    /\ UNCHANGED <<dedupVars, consVars, fileVars, columnVars, sheetVars, botVars, rerunVars>>

\* validate_schema, the printed summary and the returned result
PipelineReport ==
    /\ stage = "report"
    /\ runResult' = "success"
    /\ stage' = "idle"
    /\ Op("report")
    /\ UNCHANGED <<disk, db, bronze, silver, runs, fileOps>>
    /\ UNCHANGED <<dedupVars, consVars, fileVars, columnVars, sheetVars, botVars, rerunVars>>

\* a rebuild script: connect, DELETE FROM silver, SELECT from Bronze, INSERTs,
\* commit.  Without the Silver table the DELETE raises; without the Bronze
\* table the SELECT raises and the DELETE is never committed.
Rebuild(name, rebuilt) ==
    /\ stage = "idle"
    /\ db' = [db EXCEPT !.exists = TRUE]
    /\ IF db.silver_table = "absent" \/ ~db.bronze_table
       THEN /\ silver' = silver
            /\ Op("rebuild_failed")
       ELSE /\ silver' = rebuilt
            /\ Op(name)
    /\ UNCHANGED <<disk, bronze, stage, runResult, runs, fileOps>>
    /\ UNCHANGED <<dedupVars, consVars, fileVars, columnVars, sheetVars, botVars, rerunVars>>

FixSilverDatabase == Rebuild("fix_silver_database", FixSilver(bronze, db.silver_table))

PopulateSilverRun == Rebuild("populate_silver", PopulateSilver(bronze, db.silver_table))

\* ProductionSlackBot.__init__ finding no database file
CreateMinimalDatabase ==
    /\ stage = "idle"
    /\ ~db.exists
    /\ db' = [db EXCEPT !.exists = TRUE, !.silver_table = "minimal"]
    /\ silver' = <<SampleItem>>
    /\ Op("create_minimal_database")
    /\ UNCHANGED <<disk, bronze, stage, runResult, runs, fileOps>>
    /\ UNCHANGED <<dedupVars, consVars, fileVars, columnVars, sheetVars, botVars, rerunVars>>

Next ==
    \/ \E p \in Paths, c \in WorkbookIds \cup {"absent"} : PutFile(p, c)
    \/ PipelineStart
    \/ IngestExcelFiles
    \/ TransformBronzeToSilver
    \/ TransformAgain
    \/ PipelineReport
    \/ FixSilverDatabase
    \/ PopulateSilverRun
    \/ CreateMinimalDatabase

Spec == Init /\ [][Next]_vars

-----------------------------------------------------------------------------
(* deduplicate_items of the consolidators.                                  *)

\* InventoryConsolidator groups by one key; the Enhanced, Professional and
\* AIPowered consolidators share one multi-key body.
Variants == {"InventoryConsolidator", "ProfessionalInventoryConsolidator"}

\* the longest self.all_items the model draws
MaxItems == 3

PartNumbers == {<<>>, Text_X1, Text_x1}
Descriptions == {<<>>, Text_Widget, Text_Gadget}
Prices == {100, 150}

\* the items process_excel_file can have appended: a row with neither a part
\* number nor a description is skipped before the append
Items ==
    {it \in [part_number : PartNumbers, description : Descriptions, price_inr : Prices] :
        it.part_number /= <<>> \/ it.description /= <<>>}

ItemLists == UNION {[1..n -> Items] : n \in 0..MaxItems}

\* f"{part_number}_{description}".lower().strip()
CombinedKey(item) == Strip(Lower(item.part_number \o <<"_">> \o item.description))

\* f"{part_number}".lower().strip()
PartKey(item) == Strip(Lower(item.part_number))

\* f"desc_{description}".lower().strip()
DescKey(item) == Strip(Lower(<<"d", "e", "s", "c", "_">> \o item.description))

\* the list `keys` the multi-key body builds for one item
MultiKeys(item) ==
    (IF item.part_number /= <<>> /\ item.description /= <<>>
     THEN <<CombinedKey(item)>> ELSE <<>>)
    \o (IF item.part_number /= <<>> THEN <<PartKey(item)>> ELSE <<>>)
    \o (IF item.description /= <<>> /\ item.part_number = <<>>
        THEN <<DescKey(item)>> ELSE <<>>)

\* the keys an item is filed under, per class
KeysOf(v, item) ==
    IF v = "InventoryConsolidator" THEN <<CombinedKey(item)>> ELSE MultiKeys(item)

\* grouped[key].append(item), on the dict kept in insertion order
AddToGroup(grouped, key, item) ==
    IF \E g \in 1..Len(grouped) : grouped[g].key = key
    THEN [g \in 1..Len(grouped) |->
             IF grouped[g].key = key
             THEN [grouped[g] EXCEPT !.items = Append(@, item)]
             ELSE grouped[g]]
    ELSE Append(grouped, [key |-> key, items |-> <<item>>])

RECURSIVE AddKeys(_, _, _)
\* for key in keys
AddKeys(grouped, keys, item) ==
    IF keys = <<>> THEN grouped
    ELSE AddKeys(AddToGroup(grouped, Head(keys), item), Tail(keys), item)

RECURSIVE GroupItems(_, _, _)
\* for item in self.all_items
GroupItems(v, grouped, items) ==
    IF items = <<>> THEN grouped
    ELSE GroupItems(v, AddKeys(grouped, KeysOf(v, Head(items)), Head(items)), Tail(items))

\* mutant: the member appended last is kept, whatever its price
GroupWinnerLast(items) == items[Len(items)]

\* items.sort(key=price_inr, reverse=True); items[0]: the sort is stable, so
\* the first of the highest-priced members
GroupWinner(items) ==
    LET top == CHOOSE i \in 1..Len(items) :
                   /\ \A j \in 1..Len(items) : items[j].price_inr <= items[i].price_inr
                   /\ \A j \in 1..(i - 1) : items[j].price_inr < items[i].price_inr
    IN  items[top]

\* the list deduplicate_items assigns to self.all_items
Deduplicated(v, items) ==
    LET grouped == GroupItems(v, <<>>, items)
    IN  [g \in 1..Len(grouped) |-> GroupWinner(grouped[g].items)]

DedupInit ==
    /\ variant \in Variants
    /\ all_items \in ItemLists
    /\ dedupInput = <<>>
    /\ dpc = "collected"

DeduplicateItems ==
    /\ dpc = "collected"
    /\ dedupInput' = all_items
    /\ all_items' = Deduplicated(variant, all_items)
    /\ dpc' = "deduplicated"
    /\ UNCHANGED variant
    /\ UNCHANGED <<pipelineVars, consVars, fileVars, columnVars, sheetVars, botVars, rerunVars>>

\* deduplicate_items called again, on the list the first call assigned
DeduplicateItemsAgain ==
    /\ dpc = "deduplicated"
    /\ all_items' = Deduplicated(variant, all_items)
    /\ dpc' = "deduplicated_again"
    /\ UNCHANGED <<variant, dedupInput>>
    /\ UNCHANGED <<pipelineVars, consVars, fileVars, columnVars, sheetVars, botVars, rerunVars>>

InitDedup == PipelineInit /\ DedupInit /\ ConsIdle /\ FilesIdle /\ ColumnsIdle /\ SheetsIdle /\ BotIdle /\ RerunIdle

NextDedup == DeduplicateItems \/ DeduplicateItemsAgain

SpecDedup == InitDedup /\ [][NextDedup]_vars

-----------------------------------------------------------------------------
(* Helpers of the consolidators (professional_inventory_consolidator.py;    *)
(* the Enhanced and AIPowered classes carry the same clean_price and        *)
(* clean_text).                                                             *)

\* brand_mappings of extract_brand_from_filename, in declaration order
extract_brand_mappings ==
    <<<<<<"m", "i", "t", "s", "u", "b", "i", "s", "h", "i">>, <<"M", "i", "t", "s", "u", "b", "i", "s", "h", "i">>>>,
      <<<<"f", "e", "s", "t", "o">>, <<"F", "E", "S", "T", "O">>>>,
      <<<<"s", "m", "c">>, <<"S", "M", "C">>>>,
      <<<<"e", "a", "t", "o", "n">>, <<"E", "a", "t", "o", "n">>>>,
      <<<<"o", "m", "r", "o", "n">>, <<"O", "m", "r", "o", "n">>>>,
      <<<<"s", "i", "c", "k">>, <<"S", "I", "C", "K">>>>,
      <<<<"p", "h", "o", "e", "n", "i", "x">>, <<"P", "h", "o", "e", "n", "i", "x">>>>,
      <<<<"p", "n", "e", "u", "m", "a", "x">>, <<"P", "n", "e", "u", "m", "a", "x">>>>,
      <<<<"u", "n", "i", "s", "o", "n">>, <<"U", "n", "i", "s", "o", "n">>>>,
      <<<<"t", "r", "i", "n", "i", "t", "y">>, <<"T", "r", "i", "n", "i", "t", "y">>>>,
      <<<<"t", "e", "k", "n", "i", "c">>, <<"T", "e", "k", "n", "i", "c">>>>,
      <<<<"l", "a", "p", "p">>, <<"L", "A", "P", "P">>>>,
      <<<<"b", "e", "a", "r", "i", "n", "g">>, <<"B", "e", "a", "r", "i", "n", "g">>>>,
      <<<<"c", "y", "l", "i", "n", "d", "e", "r">>, <<"C", "y", "l", "i", "n", "d", "e", "r">>>>,
      <<<<"g", "e", "a", "r">>, <<"G", "e", "a", "r", "b", "o", "x">>>>,
      <<<<"h", "e", "a", "t", "e", "r">>, <<"H", "e", "a", "t", "e", "r">>>>,
      <<<<"l", "i", "n", "e", "a", "r">>, <<"L", "i", "n", "e", "a", "r">>>>,
      <<<<"s", "p", "r", "o", "c", "k", "e", "t">>, <<"S", "p", "r", "o", "c", "k", "e", "t">>>>,
      <<<<"c", "e", "r", "a", "m", "i", "x">>, <<"C", "e", "r", "a", "m", "i", "x">>>>,
      <<<<"c", "r", "y", "d", "o", "m">>, <<"C", "r", "y", "d", "o", "m">>>>,
      <<<<"e", "b", "m">>, <<"E", "B", "M">>>>,
      <<<<"e", "l", "s", "t", "i", "e", "n">>, <<"E", "l", "s", "t", "i", "e", "n">>>>,
      <<<<"g", "r", "a", "n", "d">>, <<"G", "r", "a", "n", "d", " ", "P", "o", "l", "y", "c", "o", "a", "t">>>>,
      <<<<"h", "i", "c", "o", "o", "l">>, <<"H", "i", "c", "o", "o", "l">>>>,
      <<<<"i", "n", "d", "o">>, <<"I", "n", "d", "o", " ", "E", "l", "e", "c", "t", "r", "i", "c", "a", "l", "s">>>>,
      <<<<"n", "v", "e", "n", "t">>, <<"N", "v", "e", "n", "t", " ", "H", "o", "f", "f", "m", "a", "n">>>>,
      <<<<"p", "r", "e", "c", "i", "s", "i", "o", "n">>, <<"P", "r", "e", "c", "i", "s", "i", "o", "n", " ", "V", "a", "l", "v", "e">>>>,
      <<<<"p", "n", "f">>, <<"P", "N", "F">>>>,
      <<<<"w", "o", "h", "n", "e", "r">>, <<"W", "o", "h", "n", "e", "r">>>>,
      <<<<"a", "u", "t", "o", "n", "i", "c", "s">>, <<"A", "u", "t", "o", "n", "i", "c", "s">>>>,
      <<<<"a", "l", "b", "r", "o">>, <<"A", "l", "b", "r", "o">>>>,
      <<<<"a", "p", "r", "a", "t", "e", "k">>, <<"A", "p", "r", "a", "t", "e", "k">>>>,
      <<<<"s", "i", "e", "m", "e", "n", "s">>, <<"S", "i", "e", "m", "e", "n", "s">>>>,
      <<<<"m", "u", "r", "r">>, <<"M", "u", "r", "r">>>>,
      <<<<"m", "u", "r", "r", "e", "l", "e", "k", "t", "r", "o", "n", "i", "k">>, <<"M", "u", "r", "r">>>>,
      <<<<"b", "o", "n", "f", "i", "g", "l", "i", "o", "l", "i">>, <<"B", "o", "n", "f", "i", "g", "l", "i", "o", "l", "i">>>>,
      <<<<"b", "e", "c", "k", "e", "r">>, <<"B", "e", "c", "k", "e", "r">>>>,
      <<<<"s", "u", "n", "c", "h", "u">>, <<"S", "u", "n", "c", "h", "u">>>>,
      <<<<"y", "y", "c">>, <<"Y", "Y", "C">>>>,
      <<<<"h", "e", "t", "r", "o", "n", "i", "k">>, <<"H", "e", "t", "r", "o", "n", "i", "k">>>>,
      <<<<"f", "l", "e", "x", "i", "c", "a", "b">>, <<"F", "l", "e", "x", "i", "c", "a", "b">>>>,
      <<<<"h", "r", "c">>, <<"H", "R", "C">>>>,
      <<<<"i", "a", "c">>, <<"I", "A", "C">>>>,
      <<<<"l", "a", "t", "h", "e">>, <<"L", "a", "t", "h", "e">>>>,
      <<<<"n", "l", "m", "k">>, <<"N", "L", "M", "K">>>>,
      <<<<"s", "a", "p", "t">>, <<"S", "A", "P", "T">>>>,
      <<<<"f", "o", "l", "i", "p", "l", "a", "s", "t">>, <<"F", "o", "l", "i", "p", "l", "a", "s", "t">>>>,
      <<<<"n", "y", "x", "i", "n", "c">>, <<"N", "y", "x", "i", "n", "c">>>>,
      <<<<"s", "e", "l", "f">>, <<"S", "e", "l", "f", " ", "M", "o", "u", "l", "d", "s">>>>,
      <<<<"p", "l", "a", "s", "t", "o", "f", "o", "r", "m">>, <<"P", "l", "a", "s", "t", "o", "f", "o", "r", "m">>>>,
      <<<<"a", "r", "i", "h", "a", "n", "t">>, <<"A", "r", "i", "h", "a", "n", "t">>>>,
      <<<<"l", "o", "o", "k", "n", "o", "r", "t", "h">>, <<"L", "o", "o", "k", "n", "o", "r", "t", "h">>>>,
      <<<<"s", "h", "o", "d", "a">>, <<"S", "h", "o", "d", "a">>>>,
      <<<<"s", "u", "p", "r", "e", "m", "e">>, <<"S", "u", "p", "r", "e", "m", "e">>>>,
      <<<<"a", "s", "u", "n">>, <<"A", "s", "u", "n">>>>,
      <<<<"b", "i", "g">>, <<"B", "i", "g", " ", "B", "e", "a", "r">>>>>>

\* categorize_item: the keywords looked for in the part number alone
categorize_plc_keywords ==
    <<<<"f", "x">>, <<"p", "l", "c">>, <<"c", "p", "u">>, <<"i", "n", "p", "u", "t">>, <<"o", "u", "t", "p", "u", "t">>, <<"m", "o", "d", "u", "l", "e">>, <<"c", "o", "n", "t", "r", "o", "l", "l", "e", "r">>, <<"f", "x", "2", "n">>, <<"f", "x", "3", "u">>, <<"f", "x", "5", "u">>, <<"p", "r", "o", "g", "r", "a", "m", "m", "a", "b", "l", "e">>>>

\* categorize_item: (category, keywords looked for in part number or description)
categorize_chain ==
    <<<<"Motors & Drives",
        <<<<"m", "o", "t", "o", "r">>, <<"s", "e", "r", "v", "o">>, <<"d", "r", "i", "v", "e">>, <<"i", "n", "v", "e", "r", "t", "e", "r">>, <<"v", "f", "d">>, <<"s", "t", "e", "p", "p", "e", "r">>, <<"a", "c", " ", "m", "o", "t", "o", "r">>, <<"d", "c", " ", "m", "o", "t", "o", "r">>, <<"s", "e", "r", "v", "o", " ", "m", "o", "t", "o", "r">>, <<"s", "t", "e", "p", "p", "e", "r", " ", "m", "o", "t", "o", "r">>>>>>,
      <<"Pneumatic Components",
        <<<<"c", "y", "l", "i", "n", "d", "e", "r">>, <<"v", "a", "l", "v", "e">>, <<"p", "n", "e", "u", "m", "a", "t", "i", "c">>, <<"f", "e", "s", "t", "o">>, <<"s", "m", "c">>, <<"p", "n", "e", "u", "m", "a", "x">>, <<"a", "i", "r">>, <<"p", "n", "e", "u", "m", "a", "t", "i", "c", " ", "c", "y", "l", "i", "n", "d", "e", "r">>, <<"a", "i", "r", " ", "c", "y", "l", "i", "n", "d", "e", "r">>, <<"p", "n", "e", "u", "m", "a", "t", "i", "c", " ", "v", "a", "l", "v", "e">>>>>>,
      <<"Electrical Components",
        <<<<"c", "o", "n", "t", "a", "c", "t", "o", "r">>, <<"r", "e", "l", "a", "y">>, <<"m", "c", "b">>, <<"m", "c", "c", "b">>, <<"f", "u", "s", "e">>, <<"t", "e", "r", "m", "i", "n", "a", "l">>, <<"c", "a", "b", "l", "e">>, <<"s", "w", "i", "t", "c", "h">>, <<"b", "r", "e", "a", "k", "e", "r">>, <<"s", "t", "a", "r", "t", "e", "r">>, <<"e", "l", "e", "c", "t", "r", "i", "c", "a", "l">>, <<"m", "c", "b">>, <<"m", "c", "c", "b">>>>>>,
      <<"Sensors & Instrumentation",
        <<<<"s", "e", "n", "s", "o", "r">>, <<"p", "r", "o", "x", "i", "m", "i", "t", "y">>, <<"p", "h", "o", "t", "o">>, <<"e", "n", "c", "o", "d", "e", "r">>, <<"s", "i", "c", "k">>, <<"o", "m", "r", "o", "n">>, <<"i", "n", "d", "u", "c", "t", "i", "v", "e">>, <<"c", "a", "p", "a", "c", "i", "t", "i", "v", "e">>, <<"p", "r", "e", "s", "s", "u", "r", "e", " ", "s", "e", "n", "s", "o", "r">>, <<"t", "e", "m", "p", "e", "r", "a", "t", "u", "r", "e", " ", "s", "e", "n", "s", "o", "r">>>>>>,
      <<"Mechanical Components",
        <<<<"b", "e", "a", "r", "i", "n", "g">>, <<"g", "e", "a", "r">>, <<"s", "p", "r", "o", "c", "k", "e", "t">>, <<"c", "h", "a", "i", "n">>, <<"r", "a", "i", "l">>, <<"l", "i", "n", "e", "a", "r">>, <<"b", "a", "l", "l", " ", "b", "e", "a", "r", "i", "n", "g">>, <<"r", "o", "l", "l", "e", "r", " ", "b", "e", "a", "r", "i", "n", "g">>, <<"g", "e", "a", "r", "b", "o", "x">>, <<"g", "e", "a", "r", " ", "b", "o", "x">>, <<"l", "i", "n", "e", "a", "r", " ", "r", "a", "i", "l">>>>>>,
      <<"Heating Elements",
        <<<<"h", "e", "a", "t", "e", "r">>, <<"h", "e", "a", "t", "i", "n", "g">>, <<"c", "e", "r", "a", "m", "i", "c">>, <<"c", "e", "r", "a", "m", "i", "x">>, <<"h", "e", "a", "t", "i", "n", "g", " ", "e", "l", "e", "m", "e", "n", "t">>, <<"b", "a", "n", "d", " ", "h", "e", "a", "t", "e", "r">>, <<"c", "a", "r", "t", "r", "i", "d", "g", "e", " ", "h", "e", "a", "t", "e", "r">>>>>>,
      <<"Enclosures & Cabinets",
        <<<<"e", "n", "c", "l", "o", "s", "u", "r", "e">>, <<"c", "a", "b", "i", "n", "e", "t">>, <<"b", "o", "x">>, <<"n", "v", "e", "n", "t">>, <<"w", "o", "h", "n", "e", "r">>, <<"p", "a", "n", "e", "l">>, <<"c", "o", "n", "t", "r", "o", "l", " ", "p", "a", "n", "e", "l">>, <<"e", "l", "e", "c", "t", "r", "i", "c", "a", "l", " ", "p", "a", "n", "e", "l">>>>>>,
      <<"Cables & Connectors",
        <<<<"c", "a", "b", "l", "e">>, <<"c", "o", "n", "n", "e", "c", "t", "o", "r">>, <<"l", "a", "p", "p">>, <<"m", "u", "r", "r", "e", "l", "e", "k", "t", "r", "o", "n", "i", "k">>, <<"w", "i", "r", "e">>, <<"c", "a", "b", "l", "e", " ", "g", "l", "a", "n", "d">>, <<"t", "e", "r", "m", "i", "n", "a", "l", " ", "b", "l", "o", "c", "k">>, <<"p", "l", "u", "g">>, <<"s", "o", "c", "k", "e", "t">>>>>>,
      <<"Fasteners & Hardware",
        <<<<"b", "o", "l", "t">>, <<"n", "u", "t">>, <<"s", "c", "r", "e", "w">>, <<"w", "a", "s", "h", "e", "r">>, <<"f", "a", "s", "t", "e", "n", "e", "r">>, <<"h", "a", "r", "d", "w", "a", "r", "e">>, <<"s", "t", "u", "d">>, <<"r", "i", "v", "e", "t">>, <<"p", "i", "n">>>>>>,
      <<"Tools & Equipment",
        <<<<"t", "o", "o", "l">>, <<"e", "q", "u", "i", "p", "m", "e", "n", "t">>, <<"g", "a", "u", "g", "e">>, <<"m", "e", "t", "e", "r">>, <<"t", "e", "s", "t", "e", "r">>, <<"c", "a", "l", "i", "p", "e", "r">>, <<"m", "i", "c", "r", "o", "m", "e", "t", "e", "r">>>>>>,
      <<"Hydraulic Components",
        <<<<"h", "y", "d", "r", "a", "u", "l", "i", "c">>, <<"p", "u", "m", "p">>, <<"h", "o", "s", "e">>, <<"f", "i", "t", "t", "i", "n", "g">>, <<"h", "y", "d", "r", "a", "u", "l", "i", "c", " ", "c", "y", "l", "i", "n", "d", "e", "r">>>>>>,
      <<"Safety Equipment",
        <<<<"s", "a", "f", "e", "t", "y">>, <<"g", "u", "a", "r", "d">>, <<"e", "m", "e", "r", "g", "e", "n", "c", "y">>, <<"s", "t", "o", "p">>, <<"s", "a", "f", "e", "t", "y", " ", "s", "w", "i", "t", "c", "h">>, <<"e", "m", "e", "r", "g", "e", "n", "c", "y", " ", "s", "t", "o", "p">>>>>>>>

\* categorize_item: (category, brands) of the brand fallback
categorize_brand_chain ==
    <<<<"PLC & Control Systems", <<<<"m", "i", "t", "s", "u", "b", "i", "s", "h", "i">>, <<"s", "i", "e", "m", "e", "n", "s">>, <<"o", "m", "r", "o", "n">>>>>>,
      <<"Pneumatic Components", <<<<"f", "e", "s", "t", "o">>, <<"s", "m", "c">>, <<"p", "n", "e", "u", "m", "a", "x">>>>>>,
      <<"Electrical Components", <<<<"e", "a", "t", "o", "n">>, <<"p", "h", "o", "e", "n", "i", "x">>, <<"w", "o", "h", "n", "e", "r">>>>>>,
      <<"Sensors & Instrumentation", <<<<"s", "i", "c", "k">>, <<"o", "m", "r", "o", "n">>>>>>,
      <<"Cables & Connectors", <<<<"l", "a", "p", "p">>, <<"m", "u", "r", "r", "e", "l", "e", "k", "t", "r", "o", "n", "i", "k">>>>>>>>

RECURSIVE FirstBrandText(_, _, _)
\* for key, brand in brand_mappings.items(): if key in filename: return brand
FirstBrandText(filename, table, i) ==
    IF i > Len(table) THEN <<"U", "n", "k", "n", "o", "w", "n", " ", "B", "r", "a", "n", "d">>
    ELSE IF Contains(filename, table[i][1]) THEN table[i][2]
    ELSE FirstBrandText(filename, table, i + 1)

extract_brand_from_filename(filename) ==
    FirstBrandText(Lower(Stem(filename)), extract_brand_mappings, 1)

clean_text(text) == IF IsNa(text) THEN <<>> ELSE Strip(Str(text))

\* the index of the first "-" of s, 0 when there is none
FirstDash(s) ==
    IF \E i \in 1..Len(s) : s[i] = "-"
    THEN CHOOSE i \in 1..Len(s) : s[i] = "-" /\ \A j \in 1..(i - 1) : s[j] /= "-"
    ELSE 0

\* price_str.split('-')[0] and [1]
SplitDash(s) ==
    LET d == FirstDash(s)
        rest == SubSeq(s, d + 1, Len(s))
        e == FirstDash(rest)
    IN  <<SubSeq(s, 1, d - 1),
          IF e = 0 THEN rest ELSE SubSeq(rest, 1, e - 1)>>

\* price_str.replace('(', '-').replace(')', '')
ParenToMinus(s) ==
    [i \in 1..Len(RemoveChars(s, {")"})) |->
        IF RemoveChars(s, {")"})[i] = "(" THEN "-" ELSE RemoveChars(s, {")"})[i]]

Max(a, b) == IF a >= b THEN a ELSE b

clean_price(price_str) ==
    IF IsNa(price_str) \/ price_str = Txt(<<>>) THEN 0
    ELSE LET s1 == RemoveChars(Strip(Str(price_str)), CurrencyChars)
             s2 == RemoveChars(s1, Letters \cup {" "})
         IN  IF Contains(s2, <<"-">>)
             THEN LET parts == SplitDash(s2)
                      lo == ParseFloat(parts[1])
                      hi == ParseFloat(parts[2])
                  IN  IF lo.ok /\ hi.ok THEN Max(lo.value, hi.value) ELSE 0
             ELSE LET s3 == IF Contains(s2, <<"(">>) /\ Contains(s2, <<")">>)
                            THEN ParenToMinus(s2) ELSE s2
                      f == ParseFloat(s3)
                  IN  IF f.ok THEN f.value ELSE 0

\* int(float(qty_val)) if not pd.isna(qty_val) else 0, 0 when it raises
clean_quantity_inline(qty_val) ==
    IF IsNa(qty_val) THEN 0
    ELSE LET f == ParseFloat(Strip(Str(qty_val)))
         IN  IF f.ok THEN f.value ELSE 0

\* re.match(r'^[A-Z]{2,4}\d+', part_number)
MatchesLettersDigits(part_number) ==
    \E n \in 2..4 :
        /\ Len(part_number) > n
        /\ \A i \in 1..n : IsUpper(part_number[i])
        /\ IsDigit(part_number[n + 1])

\* re.match(r'^[A-Z]{1,3}\d+[A-Z]', part_number)
MatchesLettersDigitsLetter(part_number) ==
    \E n \in 1..3 : \E m \in 1..Len(part_number) :
        /\ Len(part_number) > n + m
        /\ \A i \in 1..n : IsUpper(part_number[i])
        /\ \A i \in (n + 1)..(n + m) : IsDigit(part_number[i])
        /\ IsUpper(part_number[n + m + 1])

RECURSIVE CategoryByKeyword(_, _, _)
\* the chain of  if any(keyword in part_lower or keyword in desc_lower ...)
CategoryByKeyword(part_lower, desc_lower, i) ==
    IF i > Len(categorize_chain) THEN "none"
    ELSE IF ContainsAny(part_lower, categorize_chain[i][2])
            \/ ContainsAny(desc_lower, categorize_chain[i][2])
         THEN categorize_chain[i][1]
    ELSE CategoryByKeyword(part_lower, desc_lower, i + 1)

RECURSIVE CategoryByBrand(_, _)
\* the chain of  if brand_lower in [...]
CategoryByBrand(brand_lower, i) ==
    IF i > Len(categorize_brand_chain) THEN "none"
    ELSE IF \E k \in 1..Len(categorize_brand_chain[i][2]) :
               categorize_brand_chain[i][2][k] = brand_lower
         THEN categorize_brand_chain[i][1]
    ELSE CategoryByBrand(brand_lower, i + 1)

categorize_item(part_number, description, brand) ==
    LET part_lower == Lower(part_number)
        desc_lower == Lower(description)
        brand_lower == Lower(brand)
    IN  IF ContainsAny(part_lower, categorize_plc_keywords) THEN "PLC & Control Systems"
        ELSE IF CategoryByKeyword(part_lower, desc_lower, 1) /= "none"
             THEN CategoryByKeyword(part_lower, desc_lower, 1)
        ELSE IF CategoryByBrand(brand_lower, 1) /= "none"
             THEN CategoryByBrand(brand_lower, 1)
        ELSE IF MatchesLettersDigits(part_number) THEN "Electrical Components"
        ELSE IF MatchesLettersDigitsLetter(part_number) THEN "Mechanical Components"
        ELSE "Uncategorized"

-----------------------------------------------------------------------------
(* Helpers of InventoryConsolidator (inventory_consolidator.py).            *)

\* brand_mappings of InventoryConsolidator.extract_brand_from_filename, in declaration order
inv_brand_mappings ==
    <<<<<<"m", "i", "t", "s", "u", "b", "i", "s", "h", "i">>, <<"M", "i", "t", "s", "u", "b", "i", "s", "h", "i">>>>,
      <<<<"f", "e", "s", "t", "o">>, <<"F", "E", "S", "T", "O">>>>,
      <<<<"s", "m", "c">>, <<"S", "M", "C">>>>,
      <<<<"e", "a", "t", "o", "n">>, <<"E", "a", "t", "o", "n">>>>,
      <<<<"o", "m", "r", "o", "n">>, <<"O", "m", "r", "o", "n">>>>,
      <<<<"s", "i", "c", "k">>, <<"S", "I", "C", "K">>>>,
      <<<<"p", "h", "o", "e", "n", "i", "x">>, <<"P", "h", "o", "e", "n", "i", "x">>>>,
      <<<<"p", "n", "e", "u", "m", "a", "x">>, <<"P", "n", "e", "u", "m", "a", "x">>>>,
      <<<<"u", "n", "i", "s", "o", "n">>, <<"U", "n", "i", "s", "o", "n">>>>,
      <<<<"t", "r", "i", "n", "i", "t", "y">>, <<"T", "r", "i", "n", "i", "t", "y">>>>,
      <<<<"t", "e", "k", "n", "i", "c">>, <<"T", "e", "k", "n", "i", "c">>>>,
      <<<<"l", "a", "p", "p">>, <<"L", "A", "P", "P">>>>,
      <<<<"b", "e", "a", "r", "i", "n", "g">>, <<"B", "e", "a", "r", "i", "n", "g">>>>,
      <<<<"c", "y", "l", "i", "n", "d", "e", "r">>, <<"C", "y", "l", "i", "n", "d", "e", "r">>>>,
      <<<<"g", "e", "a", "r">>, <<"G", "e", "a", "r", "b", "o", "x">>>>,
      <<<<"h", "e", "a", "t", "e", "r">>, <<"H", "e", "a", "t", "e", "r">>>>,
      <<<<"l", "i", "n", "e", "a", "r">>, <<"L", "i", "n", "e", "a", "r">>>>,
      <<<<"s", "p", "r", "o", "c", "k", "e", "t">>, <<"S", "p", "r", "o", "c", "k", "e", "t">>>>,
      <<<<"c", "e", "r", "a", "m", "i", "x">>, <<"C", "e", "r", "a", "m", "i", "x">>>>,
      <<<<"c", "r", "y", "d", "o", "m">>, <<"C", "r", "y", "d", "o", "m">>>>,
      <<<<"e", "b", "m">>, <<"E", "B", "M">>>>,
      <<<<"e", "l", "s", "t", "i", "e", "n">>, <<"E", "l", "s", "t", "i", "e", "n">>>>,
      <<<<"g", "r", "a", "n", "d">>, <<"G", "r", "a", "n", "d", " ", "P", "o", "l", "y", "c", "o", "a", "t">>>>,
      <<<<"h", "i", "c", "o", "o", "l">>, <<"H", "i", "c", "o", "o", "l">>>>,
      <<<<"i", "n", "d", "o">>, <<"I", "n", "d", "o", " ", "E", "l", "e", "c", "t", "r", "i", "c", "a", "l", "s">>>>,
      <<<<"n", "v", "e", "n", "t">>, <<"N", "v", "e", "n", "t", " ", "H", "o", "f", "f", "m", "a", "n">>>>,
      <<<<"p", "r", "e", "c", "i", "s", "i", "o", "n">>, <<"P", "r", "e", "c", "i", "s", "i", "o", "n", " ", "V", "a", "l", "v", "e">>>>,
      <<<<"p", "n", "f">>, <<"P", "N", "F">>>>,
      <<<<"w", "o", "h", "n", "e", "r">>, <<"W", "o", "h", "n", "e", "r">>>>,
      <<<<"a", "u", "t", "o", "n", "i", "c", "s">>, <<"A", "u", "t", "o", "n", "i", "c", "s">>>>,
      <<<<"a", "l", "b", "r", "o">>, <<"A", "l", "b", "r", "o">>>>,
      <<<<"a", "p", "r", "a", "t", "e", "k">>, <<"A", "p", "r", "a", "t", "e", "k">>>>>>

\* the keywords of InventoryConsolidator.categorize_item looked for in the part number only
inv_plc_keywords ==
    <<<<"f", "x">>,
      <<"p", "l", "c">>,
      <<"c", "p", "u">>,
      <<"i", "n", "p", "u", "t">>,
      <<"o", "u", "t", "p", "u", "t">>,
      <<"m", "o", "d", "u", "l", "e">>,
      <<"c", "o", "n", "t", "r", "o", "l", "l", "e", "r">>>>

\* the chain of InventoryConsolidator.categorize_item over part number and description
inv_category_chain ==
    <<<<"Motors & Drives",
        <<<<"m", "o", "t", "o", "r">>,
          <<"s", "e", "r", "v", "o">>,
          <<"d", "r", "i", "v", "e">>,
          <<"i", "n", "v", "e", "r", "t", "e", "r">>,
          <<"v", "f", "d">>>>>>,
      <<"Pneumatic Components",
        <<<<"c", "y", "l", "i", "n", "d", "e", "r">>,
          <<"v", "a", "l", "v", "e">>,
          <<"p", "n", "e", "u", "m", "a", "t", "i", "c">>,
          <<"f", "e", "s", "t", "o">>,
          <<"s", "m", "c">>,
          <<"p", "n", "e", "u", "m", "a", "x">>>>>>,
      <<"Electrical Components",
        <<<<"c", "o", "n", "t", "a", "c", "t", "o", "r">>,
          <<"r", "e", "l", "a", "y">>,
          <<"m", "c", "b">>,
          <<"m", "c", "c", "b">>,
          <<"f", "u", "s", "e">>,
          <<"t", "e", "r", "m", "i", "n", "a", "l">>,
          <<"c", "a", "b", "l", "e">>>>>>,
      <<"Sensors",
        <<<<"s", "e", "n", "s", "o", "r">>,
          <<"p", "r", "o", "x", "i", "m", "i", "t", "y">>,
          <<"p", "h", "o", "t", "o">>,
          <<"e", "n", "c", "o", "d", "e", "r">>,
          <<"s", "i", "c", "k">>,
          <<"o", "m", "r", "o", "n">>>>>>,
      <<"Mechanical Components",
        <<<<"b", "e", "a", "r", "i", "n", "g">>,
          <<"g", "e", "a", "r">>,
          <<"s", "p", "r", "o", "c", "k", "e", "t">>,
          <<"c", "h", "a", "i", "n">>,
          <<"r", "a", "i", "l">>,
          <<"l", "i", "n", "e", "a", "r">>>>>>,
      <<"Heating Elements",
        <<<<"h", "e", "a", "t", "e", "r">>,
          <<"h", "e", "a", "t", "i", "n", "g">>,
          <<"c", "e", "r", "a", "m", "i", "c">>,
          <<"c", "e", "r", "a", "m", "i", "x">>>>>>,
      <<"Enclosures & Cabinets",
        <<<<"e", "n", "c", "l", "o", "s", "u", "r", "e">>,
          <<"c", "a", "b", "i", "n", "e", "t">>,
          <<"b", "o", "x">>,
          <<"n", "v", "e", "n", "t">>,
          <<"w", "o", "h", "n", "e", "r">>>>>>,
      <<"Cables & Connectors",
        <<<<"c", "a", "b", "l", "e">>,
          <<"c", "o", "n", "n", "e", "c", "t", "o", "r">>,
          <<"l", "a", "p", "p">>,
          <<"m", "u", "r", "r", "e", "l", "e", "k", "t", "r", "o", "n", "i", "k">>>>>>>>

RECURSIVE InvFirstBrand(_, _)
\* for key, brand in brand_mappings.items(): if key in filename: return brand
InvFirstBrand(filename, i) ==
    IF i > Len(inv_brand_mappings) THEN <<"O", "t", "h", "e", "r">>
    ELSE IF Contains(filename, inv_brand_mappings[i][1]) THEN inv_brand_mappings[i][2]
    ELSE InvFirstBrand(filename, i + 1)

inv_extract_brand_from_filename(filename) == InvFirstBrand(Lower(Stem(filename)), 1)

\* clean_price without the branch for parentheses
inv_clean_price(price_str) ==
    IF IsNa(price_str) \/ price_str = Txt(<<>>) THEN 0
    ELSE LET s1 == RemoveChars(Strip(Str(price_str)), CurrencyChars)
             s2 == RemoveChars(s1, Letters \cup {" "})
         IN  IF Contains(s2, <<"-">>)
             THEN LET parts == SplitDash(s2) lo == ParseFloat(parts[1]) hi == ParseFloat(parts[2])
                  IN  IF lo.ok /\ hi.ok THEN Max(lo.value, hi.value) ELSE 0
             ELSE LET f == ParseFloat(s2) IN IF f.ok THEN f.value ELSE 0

RECURSIVE InvCategory(_, _, _)
InvCategory(part_lower, desc_lower, i) ==
    IF i > Len(inv_category_chain) THEN "Other Components"
    ELSE IF ContainsAny(part_lower, inv_category_chain[i][2])
            \/ ContainsAny(desc_lower, inv_category_chain[i][2])
         THEN inv_category_chain[i][1]
    ELSE InvCategory(part_lower, desc_lower, i + 1)

inv_categorize_item(part_number, description, brand) ==
    IF ContainsAny(Lower(part_number), inv_plc_keywords) THEN "PLC & Control Systems"
    ELSE InvCategory(Lower(part_number), Lower(description), 1)

-----------------------------------------------------------------------------
(* run() of the consolidators: the row loop of process_excel_file over one  *)
(* sheet, deduplicate_items, and the export; and, beside them, the row loop *)
(* of InventoryDataPipeline.transform_bronze_to_silver over the same sheet. *)

ConsClasses ==
    {"ProfessionalInventoryConsolidator", "AIPoweredInventoryConsolidator", "InventoryDataPipeline"}

\* the longest sheet the model draws
MaxRows == 2

File_list == <<"l", "i", "s", "t", ".", "x", "l", "s", "x">>

Text_valve == <<"v", "a", "l", "v", "e">>
Text_100 == <<"1", "0", "0">>

\* The sheet has a column for each of the five fields, which the column
\* mapping finds; a row is the record of its five cells.
ConsRowSet ==
    [part_number : {NaN, Txt(Text_X1)}, description : {NaN, Txt(Text_valve)}, price : {Num(100)},
     quantity : {NaN}, min_stock : {NaN}]
    \cup {[part_number |-> NaN, description |-> NaN, price |-> NaN, quantity |-> NaN, min_stock |-> NaN]}

ConsSheets == UNION {[1..n -> ConsRowSet] : n \in 0..MaxRows}

\* what one call of the classification service can come to
ServiceFailures == {"http_error", "timeout", "unparseable"}
ServiceAnswers == {"ok", "ok_empty_object", "ok_price_text", "ok_blank_identity"}

\* re.match(r'^[A-Z0-9\-_\.]+$', val); the AIPowered class admits "/" too
LooksLikePartNumber(class, val) ==
    /\ val /= <<>>
    /\ \A i \in 1..Len(val) :
          \/ IsUpper(val[i]) \/ IsDigit(val[i]) \/ val[i] \in {"-", "_", "."}
          \/ (class = "AIPoweredInventoryConsolidator" /\ val[i] = "/")

IsAlpha(c) == c \in Letters

RECURSIVE AnyColumn(_, _, _)
\* for col in df.columns: the first cell that looks like a part number or
\* like a description; <<part_number, description>>
AnyColumn(class, cells, i) ==
    IF i > Len(cells) THEN << <<>>, <<>> >>
    ELSE LET val == Strip(Str(cells[i])) IN
         IF val /= <<>> /\ val /= <<"n", "a", "n">> /\ Len(val) > 2
         THEN IF LooksLikePartNumber(class, val) /\ Len(val) > 3 THEN <<val, <<>> >>
              ELSE IF Len(val) > 10 /\ \E k \in 1..Len(val) : IsAlpha(val[k])
                   THEN << <<>>, val>>
              ELSE AnyColumn(class, cells, i + 1)
         ELSE AnyColumn(class, cells, i + 1)

\* the fields the row loop extracts from one row: skip is TRUE when the loop
\* reaches a  continue  before an item is built. The pipeline and
\* InventoryConsolidator have neither the all-NaN test nor the search through
\* every column.
ExtractRow(class, row) ==
    LET pipeline == class = "InventoryDataPipeline"
        plain == class \in {"InventoryDataPipeline", "InventoryConsolidator"}
        part_number == IF pipeline THEN _clean_text(row.part_number) ELSE clean_text(row.part_number)
        description == IF pipeline THEN _clean_text(row.description) ELSE clean_text(row.description)
        price == IF pipeline THEN _clean_price(row.price)
                 ELSE IF class = "InventoryConsolidator" THEN inv_clean_price(row.price)
                 ELSE clean_price(row.price)
        quantity == IF pipeline THEN _clean_quantity(row.quantity) ELSE clean_quantity_inline(row.quantity)
        min_stock == IF pipeline THEN _clean_quantity(row.min_stock) ELSE clean_quantity_inline(row.min_stock)
        cells == <<row.part_number, row.description, row.price, row.quantity, row.min_stock>>
        any == AnyColumn(class, cells, 1)
        all_na == ~plain /\ \A i \in 1..Len(cells) : IsNa(cells[i])
        fallback == ~plain /\ part_number = <<>> /\ description = <<>>
        pn == IF fallback THEN any[1] ELSE part_number
        ds == IF fallback THEN any[2] ELSE description
    IN  [skip |-> all_na \/ (pn = <<>> /\ ds = <<>>),
         part_number |-> pn, description |-> ds, price |-> price,
         quantity |-> quantity, min_stock |-> min_stock]

\* call_openai_api: the text handed back, None in every failure
call_openai_api(outcome) == IF outcome \in ServiceFailures THEN "None" ELSE outcome

\* the dictionary of the fallback at the end of validate_item_data
ValidateFallback(part_number, description, brand, price) ==
    [part_number |-> part_number, description |-> description, brand |-> brand,
     price |-> Num(price), category |-> "Uncategorized", confidence |-> "low"]

\* validate_item_data: the dictionary json.loads gives for each answer of the
\* service, the fallback otherwise
validate_item_data(outcome, part_number, description, brand, price) ==
    LET result == call_openai_api(outcome) IN
    CASE result = "ok" ->
           [part_number |-> part_number, description |-> description, brand |-> brand,
            price |-> Num(price), category |-> "Pneumatic Components", confidence |-> "high"]
      [] result = "ok_empty_object" -> [k \in {} |-> k]
      [] result = "ok_price_text" ->
           [part_number |-> part_number, description |-> description, brand |-> brand,
            price |-> Txt(Text_100), category |-> "Pneumatic Components", confidence |-> "high"]
      [] result = "ok_blank_identity" ->
           [part_number |-> <<>>, description |-> <<>>, brand |-> brand,
            price |-> Num(price), category |-> "Pneumatic Components", confidence |-> "medium"]
      [] OTHER -> ValidateFallback(part_number, description, brand, price)

\* dict.get(key, default)
Get(d, key, default) == IF key \in DOMAIN d THEN d[key] ELSE default

\* the item record the row loop appends (the pipeline: the row it inserts)
BuildItem(class, outcome, x, brand, source_file) ==
    IF class = "InventoryDataPipeline"
    THEN LET ai_result == _validate_item_ai(x.part_number, x.description, brand, x.price)
         IN  [part_number |-> ai_result.part_number, description |-> ai_result.description,
              brand |-> ai_result.brand, price_inr |-> Num(ai_result.price),
              quantity |-> x.quantity, min_stock |-> x.min_stock,
              category |-> ai_result.category, confidence |-> ai_result.confidence,
              source_file |-> source_file, source_sheet |-> "Sheet1"]
    ELSE IF class = "AIPoweredInventoryConsolidator"
    THEN LET ai_result == validate_item_data(outcome, x.part_number, x.description, brand, x.price)
         IN  [part_number |-> Get(ai_result, "part_number", x.part_number),
              description |-> Get(ai_result, "description", x.description),
              brand |-> Get(ai_result, "brand", brand),
              price_inr |-> Get(ai_result, "price", Num(x.price)),
              quantity |-> x.quantity, min_stock |-> x.min_stock,
              category |-> Get(ai_result, "category", "Uncategorized"),
              confidence |-> Get(ai_result, "confidence", "low"),
              source_file |-> source_file, source_sheet |-> "Sheet1"]
    ELSE [part_number |-> x.part_number, description |-> x.description, brand |-> brand,
          price_inr |-> Num(x.price), quantity |-> x.quantity, min_stock |-> x.min_stock,
          category |-> IF class = "InventoryConsolidator"
                       THEN inv_categorize_item(x.part_number, x.description, brand)
                       ELSE categorize_item(x.part_number, x.description, brand),
          source_file |-> source_file, source_sheet |-> "Sheet1"]

ConsInit ==
    /\ cons_class \in ConsClasses
    /\ cons_rows \in ConsSheets
    /\ cons_index = 1
    /\ cons_items = <<>>
    /\ cons_trace = <<>>
    /\ cons_errors = <<>>
    /\ cons_pc = "rows"
    /\ cons_export = NoExport

\* what the handler of the row loop keeps of a row that raised: the
\* consolidators append  "Error processing row {index} in {file_path} sheet
\* {sheet_name}: ..."  to self.errors, the pipeline logs  "Error transforming
\* row: ..."
RowError(class, index) ==
    IF class = "InventoryDataPipeline"
    THEN [message |-> "Error transforming row"]
    ELSE [message |-> "Error processing row", index |-> index,
          file_path |-> File_list, sheet_name |-> "Sheet1"]

\* One pass of  for index, row in df.iterrows().  raises: something in the
\* try block raises before the item is appended; in the pipeline that is the
\* INSERT, which a skipped row never reaches.
ProcessRow ==
    /\ cons_pc = "rows"
    /\ cons_index <= Len(cons_rows)
    /\ \E raises \in IF /\ cons_class = "InventoryDataPipeline"
                         /\ ExtractRow(cons_class, cons_rows[cons_index]).skip
                      THEN {FALSE} ELSE BOOLEAN :
       \E outcome \in IF cons_class = "AIPoweredInventoryConsolidator" /\ ~raises
                      THEN ServiceFailures \cup ServiceAnswers ELSE {"no_call"} :
         LET row == cons_rows[cons_index]
             x == ExtractRow(cons_class, row)
             brand == IF cons_class = "InventoryDataPipeline"
                      THEN _extract_brand_from_filename(File_list)
                      ELSE extract_brand_from_filename(File_list)
         IN  IF raises
             THEN /\ cons_errors' = Append(cons_errors, RowError(cons_class, cons_index - 1))
                  /\ cons_items' = cons_items
                  /\ cons_trace' = Append(cons_trace, [kind |-> "raised"])
             ELSE IF x.skip
             THEN /\ cons_errors' = cons_errors
                  /\ cons_items' = cons_items
                  /\ cons_trace' = Append(cons_trace, [kind |-> "skipped"])
             ELSE /\ cons_errors' = cons_errors
                  /\ cons_items' = Append(cons_items, BuildItem(cons_class, outcome, x, brand, File_list))
                  /\ cons_trace' = Append(cons_trace,
                        [kind |-> "item", outcome |-> outcome, part_number |-> x.part_number,
                         description |-> x.description, brand |-> brand, price |-> x.price])
    /\ cons_index' = cons_index + 1
    /\ UNCHANGED <<cons_class, cons_rows, cons_pc, cons_export>>
    /\ UNCHANGED <<pipelineVars, dedupVars, fileVars, columnVars, sheetVars, botVars, rerunVars>>


\* items.sort(key=lambda x: x['price_inr'], reverse=True) compares a float
\* with a str when the group holds both: TypeError
SortRaises(items) ==
    \E i, j \in 1..Len(items) : items[i].price_inr.t /= items[j].price_inr.t

\* items[0] after the stable descending sort. The price texts of the model
\* are all equal, so in a group of texts the first member stays first.
ConsGroupWinner(items) ==
    IF \A i \in 1..Len(items) : items[i].price_inr.t = "num"
    THEN LET top == CHOOSE i \in 1..Len(items) :
                  /\ \A j \in 1..Len(items) : items[j].price_inr.v <= items[i].price_inr.v
                  /\ \A j \in 1..(i - 1) : items[j].price_inr.v < items[i].price_inr.v
         IN  items[top]
    ELSE items[1]

\* the groups of deduplicate_items: InventoryConsolidator files an item under
\* one key, the later classes under several
ConsGrouped(class, items) ==
    GroupItems(IF class = "InventoryConsolidator" THEN class ELSE "ProfessionalInventoryConsolidator",
               <<>>, items)

\* deduplicate_items of both classes: TRUE when the sort of some group raises
DeduplicateRaises(class, items) ==
    LET grouped == ConsGrouped(class, items)
    IN  \E g \in 1..Len(grouped) : Len(grouped[g].items) > 1 /\ SortRaises(grouped[g].items)

ConsDeduplicated(class, items) ==
    LET grouped == ConsGrouped(class, items)
    IN  [g \in 1..Len(grouped) |-> ConsGroupWinner(grouped[g].items)]

\* df = df[df['category'] != 'Uncategorized']
Categorized(items) == SelectSeq(items, LAMBDA it : it.category /= "Uncategorized")

RECURSIVE InsertByPrice(_, _)
\* the place of one row in the frame sorted by price, highest first, rows of
\* equal price in their old order
InsertByPrice(sorted, it) ==
    IF sorted = <<>> THEN <<it>>
    ELSE IF Head(sorted).price_inr.v >= it.price_inr.v
         THEN <<Head(sorted)>> \o InsertByPrice(Tail(sorted), it)
         ELSE <<it>> \o sorted

RECURSIVE SortValues(_)
\* df.sort_values(['brand', 'price_inr'], ascending=[True, False]); the items
\* of one run come from one file and carry one brand
SortValues(items) ==
    IF items = <<>> THEN <<>>
    ELSE InsertByPrice(SortValues(SubSeq(items, 1, Len(items) - 1)), items[Len(items)])

\* df['price_range']
price_range(x) ==
    IF x > 10000 THEN "High (>10K)" ELSE IF x > 1000 THEN "Medium (1K-10K)" ELSE "Low (<1K)"

RECURSIVE SumPrices(_)
SumPrices(items) == IF items = <<>> THEN 0 ELSE Head(items).price_inr.v + SumPrices(Tail(items))

\* df.groupby(key).agg(...): per value of the key, the item count and the sum
\* of price_inr
GroupBy(items, KeyOf(_)) ==
    {[key |-> k,
      count |-> Len(SelectSeq(items, LAMBDA it : KeyOf(it) = k)),
      total |-> SumPrices(SelectSeq(items, LAMBDA it : KeyOf(it) = k))] :
        k \in {KeyOf(items[i]) : i \in 1..Len(items)}}

ByCategory(items) == GroupBy(items, LAMBDA it : it.category)
ByBrand(items) == GroupBy(items, LAMBDA it : it.brand)
ByPriceRange(items) == GroupBy(items, LAMBDA it : price_range(it.price_inr.v))

\* df['stock_status']
export_stock_status(quantity, min_stock) ==
    IF quantity <= min_stock THEN "Low Stock" ELSE "In Stock"

\* a row of the frame with the calculated columns total_value, stock_status
\* and price_range
ExportRow(it) ==
    [f \in DOMAIN it \cup {"total_value", "stock_status", "price_range"} |->
        CASE f = "total_value" -> it.price_inr.v * it.quantity
          [] f = "stock_status" -> export_stock_status(it.quantity, it.min_stock)
          [] f = "price_range" -> price_range(it.price_inr.v)
          [] OTHER -> it[f]]

\* the sheets create_professional_excel / create_ai_validated_excel write
ExportOf(items) ==
    LET sorted == SortValues(Categorized(items))
        df == [k \in 1..Len(sorted) |-> ExportRow(sorted[k])]
    IN  [error |-> "none", main |-> df, by_category |-> ByCategory(df),
         by_brand |-> ByBrand(df), by_price |-> ByPriceRange(df)]

Crash(error) == [NoExport EXCEPT !.error = error]

\* self.deduplicate_items() of run(), once the row loop is over
ConsDeduplicateItems ==
    /\ cons_class /= "InventoryDataPipeline"
    /\ cons_pc = "rows"
    /\ cons_index > Len(cons_rows)
    /\ IF DeduplicateRaises(cons_class, cons_items)
       THEN /\ cons_pc' = "crashed"
            /\ cons_export' = Crash("TypeError in deduplicate_items")
            /\ UNCHANGED cons_items
       ELSE /\ cons_pc' = "export"
            /\ cons_items' = ConsDeduplicated(cons_class, cons_items)
            /\ UNCHANGED cons_export
    /\ UNCHANGED <<cons_class, cons_rows, cons_index, cons_trace, cons_errors>>
    /\ UNCHANGED <<pipelineVars, dedupVars, fileVars, columnVars, sheetVars, botVars, rerunVars>>

\* The export of run(). A frame built from no item has no 'category' column
\* (KeyError); a price text fails  x > 10000  (TypeError); when the filter
\* leaves no row, df.apply(..., axis=1) gives a frame whose assignment to one
\* column raises ValueError or not with the pandas installed.
ConsExportExcel ==
    /\ cons_pc = "export"
    /\ LET df == Categorized(cons_items) IN
       \E empty_frame_raises \in BOOLEAN :
         IF cons_items = <<>>
         THEN cons_pc' = "crashed" /\ cons_export' = Crash("KeyError")
         ELSE IF \E i \in 1..Len(df) : df[i].price_inr.t /= "num"
         THEN cons_pc' = "crashed" /\ cons_export' = Crash("TypeError in export")
         ELSE IF df = <<>> /\ empty_frame_raises
         THEN cons_pc' = "crashed" /\ cons_export' = Crash("ValueError")
         ELSE cons_pc' = "done" /\ cons_export' = ExportOf(cons_items)
    /\ UNCHANGED <<cons_class, cons_rows, cons_index, cons_items, cons_trace, cons_errors>>
    /\ UNCHANGED <<pipelineVars, dedupVars, fileVars, columnVars, sheetVars, botVars, rerunVars>>

\* the pipeline, once the rows of the sheet are through: the Bronze record
\* is marked 'transformed'
ConsMarkTransformed ==
    /\ cons_class = "InventoryDataPipeline"
    /\ cons_pc = "rows"
    /\ cons_index > Len(cons_rows)
    /\ cons_pc' = "done"
    /\ UNCHANGED <<cons_class, cons_rows, cons_index, cons_items, cons_trace, cons_errors, cons_export>>
    /\ UNCHANGED <<pipelineVars, dedupVars, fileVars, columnVars, sheetVars, botVars, rerunVars>>

InitCons == PipelineInit /\ DedupIdle /\ ConsInit /\ FilesIdle /\ ColumnsIdle /\ SheetsIdle /\ BotIdle /\ RerunIdle

NextCons == ProcessRow \/ ConsDeduplicateItems \/ ConsExportExcel \/ ConsMarkTransformed

SpecCons == InitCons /\ [][NextCons]_vars

-----------------------------------------------------------------------------
(* The same run over a sheet of one row whose price, quantity and min-stock *)
(* cells are drawn from the kinds of raw value a workbook holds.            *)

Text_paren500 == <<"(", "5", "0", "0", ")">>
Text_minus500 == <<"-", "5", "0", "0">>
Text_range == <<"1", "0", "0", "-", "2", "0", "0">>
Text_abc == <<"a", "b", "c">>

PriceCells ==
    {NaN, Num(100), Num(0 - 500), Txt(Text_paren500), Txt(Text_minus500), Txt(Text_range),
     Txt(Text_price2500), Txt(Text_abc)}

QuantityCells == {NaN, Num(5), Num(0 - 5), Txt(Text_abc)}

MinStockCells == {NaN, Num(2), Num(0 - 1)}

CellRowSet ==
    [part_number : {Txt(Text_X1)}, description : {Txt(Text_valve)}, price : PriceCells,
     quantity : QuantityCells, min_stock : MinStockCells]

CellsInit ==
    /\ cons_class \in ConsClasses
    /\ cons_rows \in {<<row>> : row \in CellRowSet}
    /\ cons_index = 1
    /\ cons_items = <<>>
    /\ cons_trace = <<>>
    /\ cons_errors = <<>>
    /\ cons_pc = "rows"
    /\ cons_export = NoExport

InitCells == PipelineInit /\ DedupIdle /\ CellsInit /\ FilesIdle /\ ColumnsIdle /\ SheetsIdle /\ BotIdle /\ RerunIdle

SpecCells == InitCells /\ [][NextCons]_vars

-----------------------------------------------------------------------------
(* The loop of run() over the files found:                                  *)
(*     for file_path in excel_files: self.process_excel_file(file_path)     *)
(* for the two consolidators that read the workbooks without a service,     *)
(* followed by deduplicate_items; and the pipeline's ingestion and          *)
(* transformation of the same files.                                        *)

FileClasses == {"InventoryConsolidator", "ProfessionalInventoryConsolidator", "InventoryDataPipeline"}

\* the most files the directory of the model holds
MaxFiles == 2

File_template == <<"l", "i", "s", "t", "_", "t", "e", "m", "p", "l", "a", "t", "e", ".", "x", "l", "s", "x">>
File_draft == <<"l", "i", "s", "t", "_", "d", "r", "a", "f", "t", ".", "x", "l", "s", "x">>

File_festo_pricelist == <<"F", "E", "S", "T", "O", "_", "p", "r", "i", "c", "e", "l", "i", "s", "t", ".", "x", "l", "s", "x">>
File_eaton_mcb == <<"e", "a", "t", "o", "n", "_", "m", "c", "b", ".", "x", "l", "s", "x">>

FileNames == {File_list, File_template, File_draft}

Text_VUVG == <<"V", "U", "V", "G", "-", "L", "1", "0">>
Text_solenoid_valve == <<"s", "o", "l", "e", "n", "o", "i", "d", " ", "v", "a", "l", "v", "e">>
Text_XTCD == <<"X", "T", "C", "D", "9", "-", "1", "1">>
Text_contactor == <<"c", "o", "n", "t", "a", "c", "t", "o", "r", " ", "9", "A">>
Text_2500 == <<"2", "5", "0", "0">>

Row_festo ==
    [part_number |-> Txt(Text_VUVG), description |-> Txt(Text_solenoid_valve),
     price |-> Txt(Text_price2500), quantity |-> Num(10), min_stock |-> NaN]

Row_eaton ==
    [part_number |-> Txt(Text_XTCD), description |-> Txt(Text_contactor),
     price |-> Txt(Text_2500), quantity |-> Num(15), min_stock |-> NaN]

\* a workbook of the directory: its name and the one row of its sheet
ExcelFiles ==
    [name : FileNames, row : ConsRowSet]
    \cup {[name |-> File_festo_pricelist, row |-> Row_festo],
          [name |-> File_eaton_mcb, row |-> Row_eaton]}

\* what the glob returns: files of different names, in its order
FileLists ==
    {fs \in UNION {[1..n -> ExcelFiles] : n \in 0..MaxFiles} :
        \A i, j \in 1..Len(fs) : fs[i].name = fs[j].name => i = j}

\* skip_patterns of ProfessionalInventoryConsolidator.should_skip_file
skip_patterns ==
    <<<<"t", "e", "m", "p", "l", "a", "t", "e">>,
      <<"b", "a", "c", "k", "u", "p">>,
      <<"c", "o", "p", "y">>,
      <<"o", "l", "d">>,
      <<"t", "e", "s", "t">>,
      <<"t", "e", "m", "p">>,
      <<"d", "r", "a", "f", "t">>,
      <<"s", "a", "m", "p", "l", "e">>,
      <<"e", "x", "a", "m", "p", "l", "e">>,
      <<"i", "n", "v", "e", "n", "t", "o", "r", "y", "_", "t", "e", "m", "p", "l", "a", "t", "e">> >>

\* should_skip_file, and the test at the head of the pipeline's ingest loop;
\* InventoryConsolidator has no such test
should_skip_file(class, file_path) ==
    \/ class = "ProfessionalInventoryConsolidator" /\ ContainsAny(Lower(file_path), skip_patterns)
    \/ class = "InventoryDataPipeline" /\ IngestSkips(file_path)

\* the items the row loop of process_excel_file appends for one file
FileItems(class, file) ==
    LET x == ExtractRow(class, file.row)
        brand == IF class = "InventoryConsolidator"
                 THEN inv_extract_brand_from_filename(file.name)
                 ELSE IF class = "InventoryDataPipeline"
                 THEN _extract_brand_from_filename(file.name)
                 ELSE extract_brand_from_filename(file.name)
    IN  IF x.skip THEN <<>> ELSE <<BuildItem(class, "no_call", x, brand, file.name)>>

FilesInit ==
    /\ fl_class \in FileClasses
    /\ fl_files \in FileLists
    /\ fl_index = 1
    /\ fl_items = <<>>
    /\ processed_files = <<>>
    /\ skipped_files = <<>>
    /\ fl_pc = "files"

\* process_excel_file on the next file: skipped, or read and listed (the
\* pipeline: skipped, or ingested and its rows inserted into Silver)
ProcessExcelFile ==
    /\ fl_pc = "files"
    /\ fl_index <= Len(fl_files)
    /\ LET file == fl_files[fl_index] IN
       IF should_skip_file(fl_class, file.name)
       THEN /\ skipped_files' = Append(skipped_files, file.name)
            /\ UNCHANGED <<fl_items, processed_files>>
       ELSE /\ fl_items' = fl_items \o FileItems(fl_class, file)
            /\ processed_files' = Append(processed_files, file.name)
            /\ UNCHANGED skipped_files
    /\ fl_index' = fl_index + 1
    /\ UNCHANGED <<fl_class, fl_files, fl_pc>>
    /\ UNCHANGED <<pipelineVars, dedupVars, consVars, columnVars, sheetVars, botVars, rerunVars>>

\* self.deduplicate_items() after the loop; the pipeline has no such step
FilesDeduplicate ==
    /\ fl_pc = "files"
    /\ fl_index > Len(fl_files)
    /\ fl_items' = IF fl_class = "InventoryDataPipeline" THEN fl_items
                   ELSE ConsDeduplicated(fl_class, fl_items)
    /\ fl_pc' = "done"
    /\ UNCHANGED <<fl_class, fl_files, fl_index, processed_files, skipped_files>>
    /\ UNCHANGED <<pipelineVars, dedupVars, consVars, columnVars, sheetVars, botVars, rerunVars>>

InitFiles == PipelineInit /\ DedupIdle /\ ConsIdle /\ FilesInit /\ ColumnsIdle /\ SheetsIdle /\ BotIdle /\ RerunIdle

NextFiles == ProcessExcelFile \/ FilesDeduplicate

SpecFiles == InitFiles /\ [][NextFiles]_vars

-----------------------------------------------------------------------------
(* Column inference: "Find matching columns" of process_excel_file and of   *)
(* fix_silver_database, applied to the headers of one sheet.                *)

\* column_mappings of process_excel_file, in declaration order
column_mappings ==
    <<<<"part_number",
        <<<<"p", "a", "r", "t", " ", "n", "u", "m", "b", "e", "r">>,
          <<"p", "a", "r", "t", " ", "n", "o">>,
          <<"p", "a", "r", "t", "_", "n", "o">>,
          <<"m", "o", "d", "e", "l">>,
          <<"m", "o", "d", "e", "l", " ", "n", "o">>,
          <<"m", "o", "d", "e", "l", "_", "n", "o">>,
          <<"i", "t", "e", "m">>,
          <<"i", "t", "e", "m", " ", "n", "o">>,
          <<"i", "t", "e", "m", "_", "n", "o">>,
          <<"c", "o", "d", "e">>,
          <<"s", "k", "u">>,
          <<"p", "a", "r", "t">>,
          <<"c", "o", "m", "p", "o", "n", "e", "n", "t">>,
          <<"r", "e", "f">>,
          <<"r", "e", "f", "e", "r", "e", "n", "c", "e">>>>>>,
      <<"description",
        <<<<"d", "e", "s", "c", "r", "i", "p", "t", "i", "o", "n">>,
          <<"d", "e", "s", "c">>,
          <<"n", "a", "m", "e">>,
          <<"p", "r", "o", "d", "u", "c", "t">>,
          <<"i", "t", "e", "m", " ", "d", "e", "s", "c", "r", "i", "p", "t", "i", "o", "n">>,
          <<"i", "t", "e", "m", "_", "d", "e", "s", "c">>,
          <<"s", "p", "e", "c", "i", "f", "i", "c", "a", "t", "i", "o", "n">>,
          <<"s", "p", "e", "c">>,
          <<"d", "e", "t", "a", "i", "l", "s">>,
          <<"r", "e", "m", "a", "r", "k", "s">>,
          <<"n", "o", "t", "e", "s">>>>>>,
      <<"price",
        <<<<"p", "r", "i", "c", "e">>,
          <<"c", "o", "s", "t">>,
          <<"r", "a", "t", "e">>,
          <<"u", "n", "i", "t", " ", "p", "r", "i", "c", "e">>,
          <<"u", "n", "i", "t", "_", "p", "r", "i", "c", "e">>,
          <<"v", "a", "l", "u", "e">>,
          <<"a", "m", "o", "u", "n", "t">>,
          <<"r", "s">>,
          <<"i", "n", "r">>,
          <<"r", "u", "p", "e", "e", "s">>,
          <<"t", "o", "t", "a", "l">>,
          <<"u", "n", "i", "t", " ", "c", "o", "s", "t">>>>>>,
      <<"quantity",
        <<<<"q", "u", "a", "n", "t", "i", "t", "y">>,
          <<"q", "t", "y">>,
          <<"s", "t", "o", "c", "k">>,
          <<"a", "v", "a", "i", "l", "a", "b", "l", "e">>,
          <<"i", "n", " ", "s", "t", "o", "c", "k">>,
          <<"c", "o", "u", "n", "t">>,
          <<"p", "i", "e", "c", "e", "s">>,
          <<"n", "o", "s">>,
          <<"u", "n", "i", "t", "s">>>>>>,
      <<"min_stock",
        <<<<"m", "i", "n", " ", "s", "t", "o", "c", "k">>,
          <<"m", "i", "n", "_", "s", "t", "o", "c", "k">>,
          <<"m", "i", "n", "i", "m", "u", "m">>,
          <<"r", "e", "o", "r", "d", "e", "r", " ", "l", "e", "v", "e", "l">>,
          <<"r", "e", "o", "r", "d", "e", "r", "_", "l", "e", "v", "e", "l">>,
          <<"r", "e", "o", "r", "d", "e", "r", " ", "p", "o", "i", "n", "t">>,
          <<"s", "a", "f", "e", "t", "y", " ", "s", "t", "o", "c", "k">>>>>>>>

ColumnPrograms == {"professional_inventory_consolidator", "fix_silver_database"}

\* the most columns a sheet of the model has
MaxColumns == 4

Col_PartNo == <<"P", "a", "r", "t", " ", "N", "o">>
Col_PartName == <<"P", "a", "r", "t", " ", "N", "a", "m", "e">>

Headers == {Col_ItemCode, Col_ItemDescription, Col_Rate, Col_Qty, Col_PartNo, Col_PartName}

\* the headers of a frame are all different
HeaderLists ==
    {hs \in UNION {[1..n -> Headers] : n \in 0..MaxColumns} :
        \A i, j \in 1..Len(hs) : hs[i] = hs[j] => i = j}

\* for col in df.columns: ... break  -- the first column whose lower-cased,
\* stripped header contains one of the names, 0 when there is none
FirstColumn(columns, possible_names) ==
    IF \E i \in 1..Len(columns) : ContainsAny(Strip(Lower(columns[i])), possible_names)
    THEN CHOOSE i \in 1..Len(columns) :
             /\ ContainsAny(Strip(Lower(columns[i])), possible_names)
             /\ \A j \in 1..(i - 1) : ~ContainsAny(Strip(Lower(columns[j])), possible_names)
    ELSE 0

\* found_columns of process_excel_file. The block under  if not
\* found_columns  looks for keywords that are all among the names above, so
\* it finds nothing when the mapping found nothing.
found_columns(columns) ==
    [part_number |-> FirstColumn(columns, column_mappings[1][2]),
     description |-> FirstColumn(columns, column_mappings[2][2]),
     price |-> FirstColumn(columns, column_mappings[3][2]),
     quantity |-> FirstColumn(columns, column_mappings[4][2]),
     min_stock |-> FirstColumn(columns, column_mappings[5][2])]

ColumnsInit ==
    /\ col_program \in ColumnPrograms
    /\ col_headers \in HeaderLists
    /\ col_found = <<>>

FindMatchingColumns ==
    /\ col_program \in ColumnPrograms
    /\ col_found = <<>>
    /\ col_found' = IF col_program = "fix_silver_database"
                    THEN FixColumnMap(col_headers, 1, NoColumns)
                    ELSE found_columns(col_headers)
    /\ UNCHANGED <<col_program, col_headers>>
    /\ UNCHANGED <<pipelineVars, dedupVars, consVars, fileVars, sheetVars, botVars, rerunVars>>

InitColumns == PipelineInit /\ DedupIdle /\ ConsIdle /\ FilesIdle /\ ColumnsInit /\ SheetsIdle /\ BotIdle /\ RerunIdle

NextColumns == FindMatchingColumns

SpecColumns == InitColumns /\ [][NextColumns]_vars

-----------------------------------------------------------------------------
(* The same file loop over workbooks whose one row is drawn from part       *)
(* numbers and descriptions of each kind the category inference tells       *)
(* apart: a keyword in the part number, a keyword in the description, a     *)
(* part-number shape, nothing at all; under a file name with and without a  *)
(* brand.                                                                   *)

Text_FX3U == <<"F", "X", "3", "U">>
Text_AB12 == <<"A", "B", "1", "2">>
Text_A1B == <<"A", "1", "B">>
Text_plc_unit == <<"p", "l", "c", " ", "u", "n", "i", "t">>
Text_servo_motor == <<"s", "e", "r", "v", "o", " ", "m", "o", "t", "o", "r">>

CategoryRowSet ==
    [part_number : {NaN, Txt(Text_X1), Txt(Text_FX3U), Txt(Text_AB12), Txt(Text_A1B)},
     description : {NaN, Txt(Text_valve), Txt(Text_plc_unit), Txt(Text_servo_motor)},
     price : {Num(100)}, quantity : {NaN}, min_stock : {NaN}]

CategoryFiles == [name : {File_list, File_festo_pricelist}, row : CategoryRowSet]

CategoriesInit ==
    /\ fl_class \in FileClasses
    /\ fl_files \in {fs \in UNION {[1..n -> CategoryFiles] : n \in 1..MaxFiles} :
                        \A i, j \in 1..Len(fs) : fs[i].name = fs[j].name => i = j}
    /\ fl_index = 1
    /\ fl_items = <<>>
    /\ processed_files = <<>>
    /\ skipped_files = <<>>
    /\ fl_pc = "files"

InitCategories == PipelineInit /\ DedupIdle /\ ConsIdle /\ CategoriesInit /\ ColumnsIdle /\ SheetsIdle /\ BotIdle /\ RerunIdle

SpecCategories == InitCategories /\ [][NextFiles]_vars

-----------------------------------------------------------------------------
(* The same run over sheets whose price cell is a number or a text of       *)
(* digits, with and without a part number and a description beside it: the  *)
(* rows on which the search through every column of the row has something   *)
(* to find.                                                                 *)

ShapeRowSet ==
    [part_number : {NaN, Txt(Text_X1)}, description : {NaN, Txt(Text_valve)},
     price : {Num(100), Txt(Text_2500)}, quantity : {NaN}, min_stock : {NaN}]

ShapesInit ==
    /\ cons_class \in ConsClasses
    /\ cons_rows \in UNION {[1..n -> ShapeRowSet] : n \in 1..MaxRows}
    /\ cons_index = 1
    /\ cons_items = <<>>
    /\ cons_trace = <<>>
    /\ cons_errors = <<>>
    /\ cons_pc = "rows"
    /\ cons_export = NoExport

InitShapes == PipelineInit /\ DedupIdle /\ ShapesInit /\ FilesIdle /\ ColumnsIdle /\ SheetsIdle /\ BotIdle /\ RerunIdle

SpecShapes == InitShapes /\ [][NextCons]_vars

-----------------------------------------------------------------------------
(* Reading one sheet: the attempts process_excel_file makes with            *)
(* pd.read_excel before it looks for columns. A raw sheet is its number of  *)
(* rows (title rows, header row and data rows alike) and its width; one     *)
(* that cannot be read makes every pd.read_excel raise.                     *)

SheetClasses == {"AIPoweredInventoryConsolidator", "ProfessionalInventoryConsolidator"}

\* the longest and the widest raw sheet the model draws
MaxSheetRows == 5
MaxSheetWidth == 3

RawSheets == [rows : 0..MaxSheetRows, width : 1..MaxSheetWidth, readable : BOOLEAN]

\* df = None
NoDf == [none |-> TRUE, rows |-> 0, columns |-> 0, skiprows |-> 0, header |-> TRUE]

\* pd.read_excel(file_path, sheet_name=..., skiprows=skiprows) and, with
\* header FALSE, pd.read_excel(..., header=None): the rows before the offset
\* are dropped, the next row names the columns unless header=None, the rest
\* are the data rows; nothing left gives an empty DataFrame
read_excel(raw, skiprows, header) ==
    IF ~raw.readable THEN [raises |-> TRUE, df |-> NoDf]
    ELSE LET left == raw.rows - skiprows IN
         [raises |-> FALSE,
          df |-> IF left <= 0
                 THEN [none |-> FALSE, rows |-> 0, columns |-> 0,
                       skiprows |-> skiprows, header |-> header]
                 ELSE [none |-> FALSE, rows |-> IF header THEN left - 1 ELSE left,
                       columns |-> raw.width, skiprows |-> skiprows, header |-> header]]

\* df is None or df.empty
NoneOrEmpty(df) == df.none \/ df.rows = 0 \/ df.columns = 0

SheetsInit ==
    sheet_read \in {[pc |-> "reading", class |-> c, raw |-> r, method |-> 1, df |-> NoDf,
                     tried |-> <<>>, errors |-> <<>>] : c \in SheetClasses, r \in RawSheets}

\* One pass of  for skip_rows in [0, 1, 2, 3]  of the AIPowered class: a read
\* that raises leaves df as it was, a non-empty parse wider than 2 columns
\* ends the loop. One of "Method 1" .. "Method 4" of the Professional class:
\* skiprows 0, 1, 2 and then header=None, each after the first only while df
\* is None or empty.
ReadAttempt ==
    /\ sheet_read.pc = "reading"
    /\ sheet_read.method <= 4
    /\ LET ai == sheet_read.class = "AIPoweredInventoryConsolidator"
           skiprows == IF ~ai /\ sheet_read.method = 4 THEN 0 ELSE sheet_read.method - 1
           header == ai \/ sheet_read.method /= 4
           attempt == ai \/ sheet_read.method = 1 \/ NoneOrEmpty(sheet_read.df)
           r == read_excel(sheet_read.raw, skiprows, header)
           df == IF attempt /\ ~r.raises THEN r.df ELSE sheet_read.df
           break == ai /\ ~r.raises /\ ~NoneOrEmpty(df) /\ df.columns > 2
       IN  sheet_read' =
               [sheet_read EXCEPT
                   !.df = df,
                   !.tried = IF attempt
                             THEN Append(@, [skiprows |-> skiprows, header |-> header])
                             ELSE @,
                   !.method = @ + 1,
                   !.pc = IF break \/ sheet_read.method = 4 THEN "read" ELSE "reading"]
    /\ UNCHANGED <<pipelineVars, dedupVars, consVars, fileVars, columnVars, botVars, rerunVars>>

\* if df is None or df.empty: continue -- otherwise the column search and
\* the row loop run on df
UseSheet ==
    /\ sheet_read.pc = "read"
    /\ sheet_read' = [sheet_read EXCEPT
                         !.pc = IF NoneOrEmpty(sheet_read.df) THEN "skipped" ELSE "used"]
    /\ UNCHANGED <<pipelineVars, dedupVars, consVars, fileVars, columnVars, botVars, rerunVars>>

InitSheets == PipelineInit /\ DedupIdle /\ ConsIdle /\ FilesIdle /\ ColumnsIdle /\ SheetsInit /\ BotIdle /\ RerunIdle

NextSheets == ReadAttempt \/ UseSheet

SpecSheets == InitSheets /\ [][NextSheets]_vars

-----------------------------------------------------------------------------
(* The Slack bot (slack_inventory_bot.py): handle_message on one message    *)
(* event, and the search natural_language_search routes a query to.         *)

\* the words that make a message a command
Word_inventory == <<"i", "n", "v", "e", "n", "t", "o", "r", "y">>
Word_stock == <<"s", "t", "o", "c", "k">>
Word_search == <<"s", "e", "a", "r", "c", "h">>

\* the queries of the usage examples of main(), of test_slack_bot.py and of
\* the other branches of natural_language_search
Query_servo_motors == <<"s", "e", "r", "v", "o", " ", "m", "o", "t", "o", "r", "s">>
Query_expensive_items == <<"e", "x", "p", "e", "n", "s", "i", "v", "e", " ", "i", "t", "e", "m", "s">>
Query_mitsubishi == <<"m", "i", "t", "s", "u", "b", "i", "s", "h", "i">>
Query_out_of_stock == <<"o", "u", "t", " ", "o", "f", " ", "s", "t", "o", "c", "k">>
Query_summary == <<"s", "u", "m", "m", "a", "r", "y">>
Query_in_stock == <<"i", "n", " ", "s", "t", "o", "c", "k">>
Query_no_stock == <<"n", "o", " ", "s", "t", "o", "c", "k">>
Query_festo == <<"f", "e", "s", "t", "o">>
Query_overview == <<"o", "v", "e", "r", "v", "i", "e", "w">>
Query_cheap == <<"c", "h", "e", "a", "p">>
Query_pneumatic_components == <<"p", "n", "e", "u", "m", "a", "t", "i", "c", " ", "c", "o", "m", "p", "o", "n", "e", "n", "t", "s">>
Query_electrical_components == <<"e", "l", "e", "c", "t", "r", "i", "c", "a", "l", " ", "c", "o", "m", "p", "o", "n", "e", "n", "t", "s">>
Query_cable == <<"c", "a", "b", "l", "e">>

Queries ==
    {<<>>, Query_servo_motors, Query_expensive_items, Query_mitsubishi, Query_out_of_stock,
     Query_summary, Query_in_stock, Query_no_stock, Query_festo,
     Query_overview, Query_cheap, Query_pneumatic_components, Query_electrical_components,
     Query_cable}

\* the text of a message: a query alone, or after one of the command words
EventTexts ==
    Queries \cup {w \o <<" ">> \o q : w \in {Word_inventory, Word_stock, Word_search}, q \in Queries}

RECURSIVE Replace(_, _)
\* str.replace(old, ''): every occurrence of old, left to right, is removed
Replace(s, old) ==
    IF Len(s) < Len(old) THEN s
    ELSE IF SubSeq(s, 1, Len(old)) = old THEN Replace(SubSeq(s, Len(old) + 1, Len(s)), old)
    ELSE <<Head(s)>> \o Replace(Tail(s), old)

\* the search a query is answered by: its method, the brand it is given and
\* the text general_search looks for
Search(method, brand, query) == [method |-> method, brand |-> brand, query |-> query]

natural_language_search(query) ==
    LET query_lower == Lower(query) IN
    IF ContainsAny(query_lower, <<<<"s", "e", "r", "v", "o", " ", "m", "o", "t", "o", "r">>, <<"s", "e", "r", "v", "o">>, <<"m", "o", "t", "o", "r">>>>)
    THEN IF Contains(query_lower, <<"m", "i", "t", "s", "u", "b", "i", "s", "h", "i">>)
         THEN Search("search_servo_motors", "Mitsubishi", <<>>)
         ELSE Search("search_servo_motors", "None", <<>>)
    ELSE IF ContainsAny(query_lower, <<<<"p", "n", "e", "u", "m", "a", "t", "i", "c">>, <<"c", "y", "l", "i", "n", "d", "e", "r">>, <<"v", "a", "l", "v", "e">>, <<"f", "e", "s", "t", "o">>, <<"s", "m", "c">>>>)
    THEN Search("search_pneumatic_components", "None", <<>>)
    ELSE IF ContainsAny(query_lower, <<<<"e", "l", "e", "c", "t", "r", "i", "c", "a", "l">>, <<"c", "o", "n", "t", "a", "c", "t", "o", "r">>, <<"m", "c", "b">>, <<"m", "c", "c", "b">>, <<"e", "a", "t", "o", "n">>>>)
    THEN Search("search_electrical_components", "None", <<>>)
    ELSE IF ContainsAny(query_lower, <<<<"c", "a", "b", "l", "e">>, <<"w", "i", "r", "e">>, <<"c", "o", "n", "n", "e", "c", "t", "o", "r">>, <<"l", "a", "p", "p">>, <<"p", "h", "o", "e", "n", "i", "x">>>>)
    THEN Search("search_cables_connectors", "None", <<>>)
    ELSE IF Contains(query_lower, <<"e", "x", "p", "e", "n", "s", "i", "v", "e">>) \/ Contains(query_lower, <<"h", "i", "g", "h", " ", "p", "r", "i", "c", "e">>)
    THEN Search("search_high_value_items", "None", <<>>)
    ELSE IF Contains(query_lower, <<"c", "h", "e", "a", "p">>) \/ Contains(query_lower, <<"l", "o", "w", " ", "p", "r", "i", "c", "e">>)
    THEN Search("search_low_value_items", "None", <<>>)
    ELSE IF Contains(query_lower, <<"o", "u", "t", " ", "o", "f", " ", "s", "t", "o", "c", "k">>) \/ Contains(query_lower, <<"n", "o", " ", "s", "t", "o", "c", "k">>)
    THEN Search("search_out_of_stock", "None", <<>>)
    ELSE IF Contains(query_lower, <<"i", "n", " ", "s", "t", "o", "c", "k">>)
    THEN Search("search_in_stock", "None", <<>>)
    ELSE IF Contains(query_lower, <<"m", "i", "t", "s", "u", "b", "i", "s", "h", "i">>)
    THEN Search("search_by_brand", "Mitsubishi", <<>>)
    ELSE IF Contains(query_lower, <<"f", "e", "s", "t", "o">>)
    THEN Search("search_by_brand", "FESTO", <<>>)
    ELSE IF Contains(query_lower, <<"e", "a", "t", "o", "n">>)
    THEN Search("search_by_brand", "Eaton", <<>>)
    ELSE Search("general_search", "None", query)

\* what handle_message calls for a text: nothing, get_inventory_summary, or
\* natural_language_search on what is left of the text
Routed(event_text) ==
    LET text == Lower(event_text) IN
    IF Contains(text, Word_inventory) \/ Contains(text, Word_stock) \/ Contains(text, Word_search)
    THEN LET query == Strip(Replace(Replace(Replace(text, Word_inventory), Word_stock), Word_search))
         IN  IF query = <<>> \/ query \in {Query_summary, Query_overview, <<"t", "o", "t", "a", "l">>}
             THEN Search("get_inventory_summary", "None", <<>>)
             ELSE natural_language_search(query)
    ELSE Search("none", "None", <<>>)

BotInit == bot_event \in {[pc |-> "received", text |-> x] : x \in EventTexts}

\* handle_message(event): chat_postMessage may raise SlackApiError, which the
\* handler prints
HandleMessage ==
    /\ bot_event.pc = "received"
    /\ \E api_error \in BOOLEAN :
          bot_event' = [pc |-> "handled", text |-> bot_event.text,
                        routed |-> Routed(bot_event.text),
                        posted |-> Routed(bot_event.text).method /= "none" /\ ~api_error]
    /\ UNCHANGED <<pipelineVars, dedupVars, consVars, fileVars, columnVars, sheetVars, rerunVars>>

InitBot == PipelineInit /\ DedupIdle /\ ConsIdle /\ FilesIdle /\ ColumnsIdle /\ SheetsIdle /\ BotInit /\ RerunIdle

NextBot == HandleMessage

SpecBot == InitBot /\ [][NextBot]_vars

-----------------------------------------------------------------------------
(* run() of ProfessionalInventoryConsolidator called twice, each time on a  *)
(* fresh object as main() makes it, on a directory with one source          *)
(* workbook: find_all_excel_files, process_excel_file per file,             *)
(* deduplicate_items, create_professional_excel. Of the sheets of the       *)
(* report the model reads back 'Master Inventory'.                          *)

\* output_file = self.base_path / "Professional_Master_Inventory.xlsx"
File_report == <<"P", "r", "o", "f", "e", "s", "s", "i", "o", "n", "a", "l", "_", "M", "a", "s", "t", "e", "r", "_", "I", "n", "v", "e", "n", "t", "o", "r", "y", ".", "x", "l", "s", "x">>

\* the characters of the file names, in the order of their code points
CodePointOrder ==
    <<" ", "-", ".", "0", "1", "2", "3", "4", "5", "6", "7", "8", "9", "A",
      "B", "C", "D", "E", "F", "G", "H", "I", "J", "K", "L", "M", "N", "O",
      "P", "Q", "R", "S", "T", "U", "V", "W", "X", "Y", "Z", "_", "a", "b",
      "c", "d", "e", "f", "g", "h", "i", "j", "k", "l", "m", "n", "o", "p",
      "q", "r", "s", "t", "u", "v", "w", "x", "y", "z">>

CodePoint(c) == CHOOSE i \in 1..Len(CodePointOrder) : CodePointOrder[i] = c

RECURSIVE TextBefore(_, _)
\* a < b of two str, as excel_files.sort() compares the paths
TextBefore(a, b) ==
    IF b = <<>> THEN FALSE
    ELSE IF a = <<>> THEN TRUE
    ELSE IF Head(a) /= Head(b) THEN CodePoint(Head(a)) < CodePoint(Head(b))
    ELSE TextBefore(Tail(a), Tail(b))

\* the source workbook: its name and the rows of its sheet
RerunRowSet == ConsRowSet \cup {Row_festo, Row_eaton}

RerunSources ==
    [name : {File_list, File_template, File_festo_pricelist, File_eaton_mcb},
     rows : UNION {[1..n -> RerunRowSet] : n \in 0..MaxRows}]

\* the report is not there before the first run
NoReport == [written |-> FALSE, rows |-> <<>>]

\* a row of main_df as pd.read_excel gives it back: an empty text is an
\* empty cell
ReportRow(it) ==
    [part_number |-> IF it.part_number = <<>> THEN NaN ELSE Txt(it.part_number),
     description |-> IF it.description = <<>> THEN NaN ELSE Txt(it.description),
     price |-> it.price_inr, quantity |-> Num(it.quantity), min_stock |-> Num(it.min_stock)]

\* glob of the four patterns, list(set(...)), sort()
find_all_excel_files(source, report) ==
    LET source_file == [name |-> source.name, rows |-> source.rows, sheet |-> "Sheet1"]
        report_file == [name |-> File_report, rows |-> report.rows, sheet |-> "Master Inventory"]
    IN  IF ~report.written THEN <<source_file>>
        ELSE IF TextBefore(File_report, source.name) THEN <<report_file, source_file>>
        ELSE <<source_file, report_file>>

\* what process_excel_file appends to self.all_items for one file
RerunFileItems(file) ==
    IF should_skip_file("ProfessionalInventoryConsolidator", file.name) THEN <<>>
    ELSE Flatten([r \in 1..Len(file.rows) |->
             LET items == FileItems("ProfessionalInventoryConsolidator",
                                    [name |-> file.name, row |-> file.rows[r]])
             IN  [k \in 1..Len(items) |-> [items[k] EXCEPT !.source_sheet = file.sheet]]])


\* one call of main(): a new object, run() to its end or to the exception of
\* the export. self.all_items after deduplicate_items is kept per run.
RunConsolidator ==
    /\ rerun.pc \in {"first", "second"}
    /\ \E excel_files \in {find_all_excel_files(rerun.source, rerun.report)} :
       \E collected \in {Flatten([f \in 1..Len(excel_files) |-> RerunFileItems(excel_files[f])])} :
       \E all_items_after \in {ConsDeduplicated("ProfessionalInventoryConsolidator", collected)} :
       \E df \in {SortValues(Categorized(all_items_after))} :
       \E empty_frame_raises \in BOOLEAN :
          rerun' = [rerun EXCEPT
              !.pc = IF rerun.pc = "first" THEN "second" ELSE "done",
              !.results = Append(@, all_items_after),
              !.report = IF all_items_after = <<>> \/ (df = <<>> /\ empty_frame_raises)
                         THEN @
                         ELSE [written |-> TRUE,
                               rows |-> [k \in 1..Len(df) |-> ReportRow(df[k])]]]
    /\ UNCHANGED <<pipelineVars, dedupVars, consVars, fileVars, columnVars, sheetVars, botVars>>

RerunInit ==
    \E source \in RerunSources :
        rerun = [pc |-> "first", source |-> source, report |-> NoReport, results |-> <<>>]

InitRerun == PipelineInit /\ DedupIdle /\ ConsIdle /\ FilesIdle /\ ColumnsIdle /\ SheetsIdle /\ BotIdle /\ RerunInit

NextRerun == RunConsolidator

SpecRerun == InitRerun /\ [][NextRerun]_vars

-----------------------------------------------------------------------------
(* Properties of the pipeline, checked under Spec.                          *)

\* the Bronze rows that stand for the content of the file p: the row carrying
\* the content's hash, and an 'error' row written, under the hash of its
\* path, for a file that holds this content
RowsForContentOf(p) ==
    {i \in 1..Len(bronze) :
        \/ bronze[i].data_hash = Md5Bytes(disk[p])
        \/ /\ bronze[i].data_hash = Md5Str(bronze[i].source_file)
           /\ disk[bronze[i].source_file] = disk[p]}

\* C1: after an ingestion run, every file content the run met (every file
\* under base_path whose name is not skipped) is held in exactly one Bronze
\* record, however many times and under however many paths it was met.
C1_OneRecordPerContent ==
    lastOp = "ingest" =>
        \A p \in PresentFiles :
            ~IngestSkips(p) => Cardinality(RowsForContentOf(p)) = 1

\* C2: transform_bronze_to_silver run a second time on unchanged Bronze data
\* leaves the Silver table as it was: nothing added, removed or duplicated.
C2_SecondTransformKeepsSilver ==
    [][lastOp' = "transform_again" => silver' = silver]_vars

\* C2 witness: the second transform has run on a Bronze table with a
\* transformed record whose items are in Silver.
C2_Witness ==
    /\ lastOp = "transform_again"
    /\ silver /= <<>>
    /\ \E i \in 1..Len(bronze) : bronze[i].processing_status = "transformed"

\* C6: no file-level error is fatal: the ingestion stage of a run never ends
\* the run with status 'error'.
C6_IngestNeverFatal == lastOp = "ingest" => runResult /= "error"

\* C7 as stated: the only status changes are pending->ingested,
\* ingested->transformed and pending->error.
C7_StatedTransitions ==
    [][\A i \in 1..Len(bronze) :
          /\ i <= Len(bronze')
          /\ \/ bronze'[i].processing_status = bronze[i].processing_status
             \/ <<bronze[i].processing_status, bronze'[i].processing_status>> \in
                    {<<"pending", "ingested">>, <<"ingested", "transformed">>,
                     <<"pending", "error">>}]_vars

\* C7 as amended: a record is created as 'ingested' or as 'error'; the only
\* status changes are ingested->transformed and ingested->error, so a record
\* that is 'error' or 'transformed' keeps its status, and no record is lost.
C7_StatusTransitions ==
    [][/\ \A i \in 1..Len(bronze) :
            /\ i <= Len(bronze')
            /\ \/ bronze'[i].processing_status = bronze[i].processing_status
               \/ <<bronze[i].processing_status, bronze'[i].processing_status>> \in
                      {<<"ingested", "transformed">>, <<"ingested", "error">>}
       /\ \A i \in 1..Len(bronze') :
            i > Len(bronze) => bronze'[i].processing_status \in {"ingested", "error"}]_vars

\* C7 witness: a transform has moved one record to 'transformed' and another,
\* which was ingested with its sheets, to 'error'.
C7_Witness ==
    /\ \E i \in 1..Len(bronze) : bronze[i].processing_status = "transformed"
    /\ \E i \in 1..Len(bronze) :
          bronze[i].processing_status = "error" /\ bronze[i].raw_data /= <<>>

\* C8: every Silver row's total_value_inr equals its unit_price_inr times its
\* quantity, whichever operations wrote the table.
C8_TotalValue ==
    \A i \in 1..Len(silver) :
        silver[i].total_value_inr = silver[i].unit_price_inr * silver[i].quantity

\* C8 witness: a rebuild has written a row with a price and a quantity.
C8_Witness ==
    /\ lastOp \in {"fix_silver_database", "populate_silver"}
    /\ \E i \in 1..Len(silver) : silver[i].unit_price_inr > 0 /\ silver[i].quantity > 1

\* the rule of the data model: Out of Stock / Low Stock / In Stock
StatedStockStatus(quantity, min_stock) ==
    IF quantity = 0 /\ min_stock > 0 THEN "Out of Stock"
    ELSE IF quantity <= min_stock THEN "Low Stock"
    ELSE "In Stock"

\* C9: every Silver row's stock_status is the stated function of its
\* quantity and min_stock.
C9_StockStatusRule ==
    \A i \in 1..Len(silver) :
        "min_stock" \in DOMAIN silver[i] =>
            silver[i].stock_status = StatedStockStatus(silver[i].quantity, silver[i].min_stock)

\* a Bronze record made from a workbook that could be read
SuccessfullyIngested(rec) == rec.data_hash[2] = "bytes"

\* the same, leaving out a record a transform has since marked 'error'
IngestedWithoutError(rec) ==
    SuccessfullyIngested(rec) /\ rec.processing_status /= "error"

\* the items fix_silver_database derives from the records that satisfy Keep
FixItemsOf(Keep(_)) ==
    Flatten([i \in 1..Len(bronze) |->
                IF Keep(bronze[i]) THEN FixRecord(bronze[i], db.silver_table) ELSE <<>>])

\* the items populate_silver derives from the records that satisfy Keep
PopulateItemsOf(Keep(_)) ==
    Flatten([i \in 1..Len(bronze) |->
                IF Keep(bronze[i]) THEN PopulateRecord(bronze[i], db.silver_table) ELSE <<>>])

\* C10: a full Silver rebuild yields the items of every successfully
\* ingested Bronze record, whether or not the record was transformed before
\* (a record a transform has marked 'error' may be counted or left out).
C10_RebuildFromBronze ==
    /\ lastOp = "fix_silver_database" =>
          \/ silver = FixItemsOf(SuccessfullyIngested)
          \/ silver = FixItemsOf(IngestedWithoutError)
    /\ lastOp = "populate_silver" =>
          \/ silver = PopulateItemsOf(SuccessfullyIngested)
          \/ silver = PopulateItemsOf(IngestedWithoutError)

\* C11: when a pipeline run has completed, no two Silver items have the same
\* lower-cased part number and description.
C11_SilverDeduplicated ==
    lastOp = "report" =>
        \A i, j \in 1..Len(silver) :
            (/\ Lower(silver[i].part_number) = Lower(silver[j].part_number)
             /\ Lower(silver[i].description) = Lower(silver[j].description)) => i = j

-----------------------------------------------------------------------------
(* Properties of deduplicate_items, checked under SpecDedup.                *)

\* the set of elements of a sequence
Range(seq) == {seq[i] : i \in 1..Len(seq)}

\* the identity keys the input items are filed under
InputKeys ==
    UNION {Range(KeysOf(variant, dedupInput[i])) : i \in 1..Len(dedupInput)}

\* the members of the group of key k: the input items filed under k
GroupMembers(k) ==
    {dedupInput[i] : i \in {j \in 1..Len(dedupInput) : k \in Range(KeysOf(variant, dedupInput[j]))}}

\* C3: after deduplicate_items every identity-key group has exactly one of
\* its members in the resulting item set.
C3_OneSurvivorPerGroup ==
    dpc = "deduplicated" =>
        \A k \in InputKeys : Cardinality(GroupMembers(k) \cap Range(all_items)) = 1

\* C4: the two X1/Widget items priced 100 and 150 give exactly one item,
\* priced 150, and no item appears twice in the result.
C4_ExampleAndNoRepeats ==
    dpc = "deduplicated" =>
        /\ dedupInput = <<[part_number |-> Text_X1, description |-> Text_Widget, price_inr |-> 100],
                          [part_number |-> Text_X1, description |-> Text_Widget, price_inr |-> 150]>>
              => all_items = <<[part_number |-> Text_X1, description |-> Text_Widget,
                                price_inr |-> 150]>>
        /\ \A i, j \in 1..Len(all_items) : i /= j => all_items[i] /= all_items[j]

\* C5: in every group of two or more members, a member that survives has a
\* price at least that of every other member of the group.
C5_SurvivorHasTopPrice ==
    dpc = "deduplicated" =>
        \A k \in InputKeys :
            Cardinality(GroupMembers(k)) >= 2 =>
                \A m \in GroupMembers(k) \cap Range(all_items) :
                    \A o \in GroupMembers(k) : m.price_inr >= o.price_inr


-----------------------------------------------------------------------------
(* Properties of the consolidator runs, checked under SpecCons.             *)

AIPowered == cons_class = "AIPoweredInventoryConsolidator"

Last(s) == s[Len(s)]

\* the row loop has just appended an item whose classification call failed
FailedCallItem ==
    /\ AIPowered
    /\ cons_pc = "rows"
    /\ cons_trace /= <<>>
    /\ Last(cons_trace).kind = "item"
    /\ Last(cons_trace).outcome \in ServiceFailures

\* C12: when the classification call fails (error status, timeout or other
\* exception, unparseable body) the item is still emitted with its original
\* part_number, description, brand and price, with the category of the
\* deterministic keyword heuristic, and with confidence 'low'.
C12_FallbackOnServiceFailure ==
    FailedCallItem =>
        LET t == Last(cons_trace)
            item == Last(cons_items)
        IN  /\ item.part_number = t.part_number
            /\ item.description = t.description
            /\ item.brand = t.brand
            /\ item.price_inr = Num(t.price)
            /\ item.confidence = "low"
            /\ item.category = categorize_item(t.part_number, t.description, t.brand)

\* C13: the classification service is never a single point of failure:
\* whatever each per-item call comes to, the run completes file processing,
\* deduplication and export. (A run with no categorised item to export is
\* left out: its export fails with or without the service.)
C13_ServiceNeverFatal ==
    (AIPowered /\ cons_pc = "crashed") => cons_export.error \in {"KeyError", "ValueError"}


\* the rows of the sheet on which the loop did the given thing
RowsOfKind(kind) == {k \in 1..Len(cons_trace) : cons_trace[k].kind = kind}

\* C14: when processing one row raises, the error is recorded as a row-scoped
\* error naming file, sheet and row index, the row yields no item, and the
\* rows after it are still processed: the loop takes every row of the sheet
\* in turn and the run goes on after the last.
C14_RowErrorIsRowScoped ==
    /\ Len(cons_errors) = Cardinality(RowsOfKind("raised"))
    /\ \A k \in 1..Len(cons_errors) :
          /\ {"file_path", "sheet_name", "index"} \subseteq DOMAIN cons_errors[k]
          /\ cons_errors[k].file_path = File_list
          /\ cons_errors[k].sheet_name = "Sheet1"
          /\ cons_errors[k].index + 1 \in RowsOfKind("raised")
    /\ cons_pc = "rows" =>
          /\ Len(cons_trace) = cons_index - 1
          /\ Len(cons_items) = Cardinality(RowsOfKind("item"))
    /\ cons_pc /= "rows" => Len(cons_trace) = Len(cons_rows)


-----------------------------------------------------------------------------
(* Properties of the cleaned numeric fields, checked under SpecCells.       *)

\* C15: every item has unit_price >= 0, quantity >= 0 and min_stock >= 0,
\* whatever the raw cells were (negative numbers, parenthesised amounts,
\* ranges, text).
C15_NonNegativeFields ==
    \A i \in 1..Len(cons_items) :
        /\ cons_items[i].price_inr.t = "num" => cons_items[i].price_inr.v >= 0
        /\ cons_items[i].quantity >= 0
        /\ cons_items[i].min_stock >= 0


-----------------------------------------------------------------------------
(* Further properties of the consolidator runs, checked under SpecCons.     *)

\* C16: every item that reaches deduplication or the Silver store has a
\* non-empty part_number or a non-empty description: a row with neither is
\* dropped before that stage.
C16_ItemsHaveIdentity ==
    \A i \in 1..Len(cons_items) :
        cons_items[i].part_number /= <<>> \/ cons_items[i].description /= <<>>


-----------------------------------------------------------------------------
(* Properties of the loop over the files, checked under SpecFiles.          *)

\* the patterns the specification names: template, backup, draft
NamedSkipPatterns ==
    <<<<"t", "e", "m", "p", "l", "a", "t", "e">>, <<"b", "a", "c", "k", "u", "p">>,
      <<"d", "r", "a", "f", "t">> >>

\* C17: a file whose name contains a skip pattern is excluded from ingestion:
\* it yields no item in the result and is never listed among the processed
\* files.
C17_SkippedFilesExcluded ==
    \A k \in 1..Len(fl_files) :
        ContainsAny(Lower(fl_files[k].name), NamedSkipPatterns) =>
            /\ \A p \in 1..Len(processed_files) : processed_files[p] /= fl_files[k].name
            /\ \A i \in 1..Len(fl_items) : fl_items[i].source_file /= fl_files[k].name


-----------------------------------------------------------------------------
(* Properties of the export, checked under SpecCons.                        *)

\* C18: every item of the post-dedup set appears in the flat report of the
\* export, and the summary tables by brand, by category and by price tier
\* aggregate over that same full set. (Stated for the runs that wrote a
\* report with rows.)
C18_ExportCoversEveryItem ==
    (cons_pc = "done" /\ cons_export.main /= <<>>) =>
        /\ \A i \in 1..Len(cons_items) :
              \E k \in 1..Len(cons_export.main) :
                  \A f \in DOMAIN cons_items[i] : cons_export.main[k][f] = cons_items[i][f]
        /\ Len(cons_export.main) = Len(cons_items)
        /\ cons_export.by_category = ByCategory(cons_items)
        /\ cons_export.by_brand = ByBrand(cons_items)
        /\ cons_export.by_price = ByPriceRange(cons_items)


-----------------------------------------------------------------------------
(* The end-to-end example, checked under SpecFiles.                         *)

\* the directory holds exactly the two workbooks of the example
ExampleFiles ==
    /\ Len(fl_files) = 2
    /\ {fl_files[1].name, fl_files[2].name} = {File_festo_pricelist, File_eaton_mcb}

\* the Silver row of the given part number has the given brand and category,
\* a confidence, and is 'In Stock'
ExampleItem(part_number, brand, category) ==
    \E i \in 1..Len(fl_items) :
        /\ fl_items[i].part_number = part_number
        /\ fl_items[i].brand = brand
        /\ fl_items[i].category = category
        /\ fl_items[i].confidence \in {"high", "medium", "low"}
        /\ StockStatus(fl_items[i].quantity, fl_items[i].min_stock) = "In Stock"

\* C19: from FESTO_pricelist.xlsx with the row (VUVG-L10, solenoid valve,
\* 2,500 with a currency sign, qty 10) and eaton_mcb.xlsx with the row
\* (XTCD9-11, contactor 9A, 2500, qty 15) the pipeline's Silver output is
\* exactly 2 items, of brands FESTO and Eaton, categories Pneumatic
\* Components and Electrical Components, each with a confidence and
\* 'In Stock'.
C19_EndToEndExample ==
    (fl_class = "InventoryDataPipeline" /\ fl_pc = "done" /\ ExampleFiles) =>
        /\ Len(fl_items) = 2
        /\ ExampleItem(Text_VUVG, "FESTO", "Pneumatic Components")
        /\ ExampleItem(Text_XTCD, "Eaton", "Electrical Components")


-----------------------------------------------------------------------------
(* Properties of the column inference, checked under SpecColumns.           *)

Fields == {"part_number", "description", "price", "quantity", "min_stock"}

\* the candidate substrings the program of the run has for a field
Candidates(field) ==
    IF col_program = "fix_silver_database"
    THEN CASE field = "part_number" -> fix_part_keywords
           [] field = "description" -> fix_desc_keywords
           [] field = "price" -> fix_price_keywords
           [] field = "quantity" -> fix_qty_keywords
           [] field = "min_stock" -> fix_min_keywords
    ELSE CASE field = "part_number" -> column_mappings[1][2]
           [] field = "description" -> column_mappings[2][2]
           [] field = "price" -> column_mappings[3][2]
           [] field = "quantity" -> column_mappings[4][2]
           [] field = "min_stock" -> column_mappings[5][2]

\* the columns whose lower-cased header contains a candidate of the field
Matching(field) ==
    {i \in 1..Len(col_headers) : ContainsAny(Lower(col_headers[i]), Candidates(field))}

\* the leftmost of them, 0 when there is none
Leftmost(field) ==
    IF Matching(field) = {} THEN 0
    ELSE CHOOSE i \in Matching(field) : \A j \in Matching(field) : i <= j

ExampleHeaders == <<Col_ItemCode, Col_ItemDescription, Col_Rate, Col_Qty>>

\* C20: for each field the leftmost header, in sheet column order, whose
\* lower-cased text contains a candidate substring of the field is chosen;
\* the headers [Item Code, Item Description, Rate, Qty] map to part_number ->
\* Item Code, description -> Item Description, price -> Rate, quantity ->
\* Qty, min_stock unmapped. (Stated for the fields the program maps: the
\* header it chose is the leftmost one that matches.)
C20_LeftmostHeaderWins ==
    col_found /= <<>> =>
        /\ \A field \in Fields :
              col_found[field] /= 0 => col_found[field] = Leftmost(field)
        /\ col_headers = ExampleHeaders =>
              col_found = [part_number |-> 1, description |-> 2, price |-> 3,
                           quantity |-> 4, min_stock |-> 0]

-----------------------------------------------------------------------------
(* Properties of price cleaning, checked under SpecCells.                   *)

\* the price the row loop took from the one row of the sheet, when it built
\* an item from it
CleanedPriceOf(cell) ==
    {cons_trace[k].price : k \in {j \in 1..Len(cons_trace) :
                                     cons_trace[j].kind = "item" /\ cons_rows[j].price = cell}}

\* C21: price cleaning never raises and gives the number left after
\* stripping currency symbols, separators and letters (2,500 with a currency
\* sign gives 2500), the larger bound of a 'low-high' range ('100-200' gives
\* 200), a negative value for a parenthesised amount ('(500)' gives -500) and
\* 0 for unparseable input ('abc' gives 0), in every program that cleans a
\* price.
C21_CleanPriceContract ==
    /\ CleanedPriceOf(Txt(Text_price2500)) \subseteq {2500}
    /\ CleanedPriceOf(Txt(Text_range)) \subseteq {200}
    /\ CleanedPriceOf(Txt(Text_paren500)) \subseteq {0 - 500}
    /\ CleanedPriceOf(Txt(Text_abc)) \subseteq {0}

-----------------------------------------------------------------------------
(* Properties of category inference, checked under SpecCategories.          *)

\* the category the stated rule gives: the first category of the declared
\* order with a keyword in the lower-cased part number or description, then
\* the brand fallback, then the part-number shape, then 'Uncategorized'
StatedCategory(part_number, description, brand) ==
    LET part_lower == Lower(part_number)
        desc_lower == Lower(description)
    IN  IF \/ ContainsAny(part_lower, categorize_plc_keywords)
           \/ ContainsAny(desc_lower, categorize_plc_keywords)
        THEN "PLC & Control Systems"
        ELSE IF CategoryByKeyword(part_lower, desc_lower, 1) /= "none"
             THEN CategoryByKeyword(part_lower, desc_lower, 1)
        ELSE IF CategoryByBrand(Lower(brand), 1) /= "none"
             THEN CategoryByBrand(Lower(brand), 1)
        ELSE IF MatchesLettersDigits(part_number) THEN "Electrical Components"
        ELSE IF MatchesLettersDigitsLetter(part_number) THEN "Mechanical Components"
        ELSE "Uncategorized"

\* C22: the category of an item is the first category, in the declared
\* priority order, one of whose keywords is a substring of the lower-cased
\* part number or of the lower-cased description; the brand fallback and then
\* the part-number shape apply only when no keyword matches, and otherwise the
\* category is 'Uncategorized'.
C22_CategoryByPriority ==
    fl_class = "ProfessionalInventoryConsolidator" =>
        \A i \in 1..Len(fl_items) :
            fl_items[i].category =
                StatedCategory(fl_items[i].part_number, fl_items[i].description, fl_items[i].brand)

-----------------------------------------------------------------------------
(* Further properties of deduplicate_items, checked under SpecDedup.        *)

\* the winner of the group of key k: its highest-priced member, the one met
\* first in the input among equals
StatedWinner(k) ==
    LET idx == {j \in 1..Len(dedupInput) : k \in Range(KeysOf(variant, dedupInput[j]))}
        top == CHOOSE i \in idx :
                   /\ \A j \in idx : dedupInput[j].price_inr <= dedupInput[i].price_inr
                   /\ \A j \in idx : j < i => dedupInput[j].price_inr < dedupInput[i].price_inr
    IN  dedupInput[top]

\* C23: an item is in the post-dedup set if and only if it is the winner
\* (highest unit price) of at least one identity-key group it belongs to: an
\* item that wins none of its groups is excluded, and nothing that was not in
\* the input is added.
C23_SurvivorsAreGroupWinners ==
    dpc = "deduplicated" =>
        /\ Range(all_items) = {StatedWinner(k) : k \in InputKeys}
        /\ Range(all_items) \subseteq Range(dedupInput)

\* an input item that wins none of its groups is gone, and a survivor of the
\* multi-key grouping lost one of its groups but won another
C23_Witness ==
    /\ dpc = "deduplicated"
    /\ variant = "ProfessionalInventoryConsolidator"
    /\ \E it \in Range(dedupInput) : it \notin Range(all_items)
    /\ \E m \in Range(all_items) : \E k \in Range(KeysOf(variant, m)) : StatedWinner(k) /= m

-----------------------------------------------------------------------------
(* Properties of row extraction, checked under SpecShapes: the sheet has a  *)
(* matched header for each of the five fields.                              *)

\* C24: content-shape inference is used only for a sheet in which header
\* matching found no field; in a sheet with matched headers a row whose
\* part-number and description cells yield nothing is dropped, and its item
\* fields are never filled from another column such as the price column.
C24_ShapeInferenceOnlyWithoutHeaders ==
    \A k \in 1..Len(cons_trace) :
        cons_trace[k].kind = "item" =>
            /\ cons_trace[k].part_number = clean_text(cons_rows[k].part_number)
            /\ cons_trace[k].description = clean_text(cons_rows[k].description)
            /\ cons_trace[k].part_number /= <<>> \/ cons_trace[k].description /= <<>>

-----------------------------------------------------------------------------
(* Properties of reading a sheet, checked under SpecSheets.                 *)

\* the row-skip offsets under which the sheet parses acceptably: non-empty
\* and wider than 2 columns
AcceptableOffsets ==
    {k \in 0..3 : LET r == read_excel(sheet_read.raw, k, TRUE)
                  IN  ~r.raises /\ r.df.rows > 0 /\ r.df.columns > 2}

\* C25: the row-skip offsets are tried in the order 0, 1, 2, 3 and the first
\* parse that is non-empty and wider than 2 columns is the one used for the
\* sheet; a sheet that parses acceptably under no offset is recorded and
\* skipped, and hands no rows to the row loop.
C25_RowSkipOffsets ==
    sheet_read.pc \in {"used", "skipped"} =>
        /\ \A i \in 1..Len(sheet_read.tried) :
              sheet_read.tried[i] = [skiprows |-> i - 1, header |-> TRUE]
        /\ AcceptableOffsets /= {} =>
              /\ sheet_read.pc = "used"
              /\ \E k \in AcceptableOffsets :
                    /\ \A j \in AcceptableOffsets : k <= j
                    /\ sheet_read.df = read_excel(sheet_read.raw, k, TRUE).df
        /\ AcceptableOffsets = {} =>
              /\ sheet_read.pc = "skipped"
              /\ sheet_read.errors /= <<>>

-----------------------------------------------------------------------------
(* Properties of the Slack bot, checked under SpecBot.                      *)

\* the usage examples main() prints, with the search each one names
AdvertisedCommands ==
    {<<Query_out_of_stock, Search("search_out_of_stock", "None", <<>>)>>,
     <<Query_servo_motors, Search("search_servo_motors", "None", <<>>)>>,
     <<Query_expensive_items, Search("search_high_value_items", "None", <<>>)>>,
     <<Query_mitsubishi, Search("search_by_brand", "Mitsubishi", <<>>)>>,
     <<Query_summary, Search("get_inventory_summary", "None", <<>>)>>}

\* C26: each advertised command reaches its specialised search through
\* handle_message ('inventory out of stock' the out-of-stock search,
\* 'inventory servo motors' the servo-motor search, 'inventory expensive
\* items' the high-value search, 'inventory mitsubishi' the Mitsubishi brand
\* search, 'inventory summary' the summary), and the routed search is the one
\* natural_language_search gives for the text after the command word.
C26_AdvertisedCommandsRouted ==
    \A c \in AdvertisedCommands :
        (bot_event.pc = "handled" /\ bot_event.text = Word_inventory \o <<" ">> \o c[1]) =>
            /\ bot_event.routed = c[2]
            /\ c[1] /= Query_summary => bot_event.routed = natural_language_search(c[1])

-----------------------------------------------------------------------------
(* Further properties of the transformation, checked under Spec.            *)

\* a step that is one call of transform_bronze_to_silver, from its SELECT to
\* its commit
TransformStep ==
    \/ stage = "transform" /\ stage' = "report"
    \/ lastOp /= "transform_again" /\ lastOp' = "transform_again"

\* C27: when transform_bronze_to_silver returns, no Bronze record has status
\* 'ingested': every record that was 'ingested' when the call started has
\* become 'transformed' or 'error', and the other records are as they were.
C27_TransformLeavesNoIngested ==
    [][TransformStep =>
          /\ Len(bronze') = Len(bronze)
          /\ \A i \in 1..Len(bronze) :
                /\ bronze'[i].processing_status /= "ingested"
                /\ bronze[i].processing_status = "ingested" =>
                      bronze'[i].processing_status \in {"transformed", "error"}
                /\ bronze[i].processing_status /= "ingested" => bronze'[i] = bronze[i]]_vars

\* a transformation has returned after it transformed one record and failed
\* on another that had been ingested
C27_Witness ==
    /\ lastOp = "transform"
    /\ \E i, j \in 1..Len(bronze) :
          /\ bronze[i].processing_status = "transformed"
          /\ bronze[j].processing_status = "error"
          /\ SuccessfullyIngested(bronze[j])

\* the rows the records a transformation left 'transformed' insert
RowsOfTransformed(before, after, silver_table) ==
    Flatten([i \in 1..Len(before) |->
        IF before[i].processing_status = "ingested" /\ after[i].processing_status = "transformed"
        THEN TransformSheets(before[i], Len(before[i].raw_data), silver_table)
        ELSE <<>>])

\* C28: a Bronze record that a transform run leaves with status 'error' has
\* contributed no Silver items: the rows transform_bronze_to_silver adds to
\* Silver are exactly the rows of the records whose status after the run is
\* 'transformed'.
C28_ErrorRecordContributesNothing ==
    [][TransformStep => silver' = silver \o RowsOfTransformed(bronze, bronze', db.silver_table)]_vars

\* how many times each element occurs in a sequence
Multiplicity(seq) ==
    [x \in Range(seq) |-> Cardinality({i \in 1..Len(seq) : seq[i] = x})]

\* C29: deduplicate_items is idempotent: applied to its own output it
\* returns the same items, with the same multiplicity, as the first
\* application.
C29_DeduplicateIdempotent ==
    [][dpc = "deduplicated" /\ dpc' = "deduplicated_again" =>
          Multiplicity(all_items') = Multiplicity(all_items)]_vars

\* C30: run() called twice over a directory whose source files did not
\* change gives the same post-dedup item set both times: the report
\* workbook the first run wrote into the directory is not read as a source
\* by the second run.
C30_SecondRunSameItems ==
    rerun.pc = "done" =>
        /\ Range(rerun.results[1]) = Range(rerun.results[2])
        /\ \A k \in 1..Len(rerun.results[2]) : rerun.results[2][k].source_file /= File_report

=============================================================================
